---------------------------- MODULE Spec2Model ----------------------------
(***************************************************************************)
(* Model of the archbloom filter family: the plain Bloom filter (bloom.c), *)
(* the counting Bloom filter (cbloom.c), the time-decaying Bloom filter    *)
(* (tdbloom.c) and the time-decaying counting Bloom filter (tdcbloom.c).   *)
(*                                                                         *)
(* Each variant has its own specification (SpecBloom, SpecCBloom, ...):    *)
(* Init is the state right after the variant's init call, and there is one *)
(* action per library call.  The variables of the other variants keep the  *)
(* value Idle.                                                             *)
(*                                                                         *)
(* Numbers.  TLC integers are 32 bits wide, so the 64-bit machine word     *)
(* (uint64_t, size_t, time_t) is scaled to WordBits bits: every uint64_t   *)
(* expression of the source is reduced modulo Word = 2^WordBits, and       *)
(* UINT64_MAX is WORD_MAX = Word - 1.  The 4, 8 and 16 bit widths keep     *)
(* their real size; the 32 bit width is scaled to WordBits - 2 bits, so it *)
(* stays strictly between the 16 bit width and the machine word.           *)
(***************************************************************************)
EXTENDS Integers, Sequences, FiniteSets, TLC

VARIABLES
    hashes,     \* mmh3_64_make_hashes: element -> sequence (0-based) of 64-bit hashes
    last,       \* the last library call: [op, element, ret]
    bf,         \* bloomfilter struct of bloom.c (bitmap is a byte array)
    bf_oob,     \* the heap byte that follows the bitmap allocation
    bf_added,   \* history: elements passed to an add call since the last clear
    cbf,        \* cbloomfilter struct of cbloom.c (countermap is an array of cells)
    cbf_adds,   \* history: element -> number of cbloom_add calls
    cbf_removes,\* history: element -> number of cbloom_remove calls
    cbf_live,   \* history: elements added with no cbloom_remove of them since
    cbf_valid,  \* history: element -> its removes never outnumbered its adds
    cbf_sat,    \* history: some increment found its counter at the maximum
    now,        \* CLOCK_MONOTONIC in seconds (get_monotonic_time)
    ticks,      \* number of clock advances so far
    tdbf,       \* tdbloom struct of tdbloom.c (filter is an array of timestamps)
    td_added,   \* history: element -> clock value of its last tdbloom_add, or -1
    tdcbf,      \* tdcbloom struct of tdcbloom.c (entrymap: counter and timestamp)
    tdc_adds,   \* history: element -> number of tdcbloom_add calls
    tdc_removes,\* history: element -> number of tdcbloom_remove calls
    tdc_valid,  \* history: element -> its removes never outnumbered its adds
    tdc_added,  \* history: element -> clock value of its last tdcbloom_add, or -1
    tdc_swept,  \* history: tdcbloom_clear or tdcbloom_clear_expired reset an entry
    disk,       \* the file at the path given to the save and load calls
    dst,        \* the filter struct a load, merge or intersect call writes to
    bf2,        \* second plain filter, operand of bloom_merge and bloom_intersect
    heap        \* the allocator: buffers allocated and not freed, invalid frees

bloomVars  == <<bf, bf_oob, bf_added>>
cbloomVars == <<cbf, cbf_adds, cbf_removes, cbf_live, cbf_valid, cbf_sat>>
clockVars  == <<now, ticks>>
tdVars     == <<tdbf, td_added>>
tdcVars    == <<tdcbf, tdc_adds, tdc_removes, tdc_valid, tdc_added, tdc_swept>>
ioVars     == <<disk, dst, bf2, heap>>
vars == <<hashes, last, bloomVars, cbloomVars, clockVars, tdVars, tdcVars, ioVars>>

\* the variables a call on one variant leaves alone
notBloom  == <<hashes, cbloomVars, clockVars, tdVars, tdcVars, ioVars>>
notCBloom == <<hashes, bloomVars, clockVars, tdVars, tdcVars, ioVars>>
notTD     == <<hashes, bloomVars, cbloomVars, tdcVars, ioVars>>
notTDC    == <<hashes, bloomVars, cbloomVars, tdVars, ioVars>>

-----------------------------------------------------------------------------
(* Bounds and scaled widths *)

WordBits == 20
Word     == 2^WordBits
WORD_MAX == Word - 1

\* bound on bf->insertions (the guard of the adding calls)
MaxInsertions == 3

Elements == {"a", "b"}

\* the 64-bit hash values the model draws an element's hashes from
HashVals == {0, 8, 10}

Idle == [idle |-> TRUE]

\* the hash values of the model: "a" has its first position on slot 0 and
\* its other positions on slot 0 or 2 (the slots are interchangeable), "b"
\* has any positions
HashTables(hashcount) ==
    {h \in [Elements -> [0 .. hashcount - 1 -> HashVals]] :
        \A i \in 0 .. hashcount - 1 :
            h["a"][i] \in (IF i = 0 THEN {0} ELSE {0, 8})}

\* calls counted over all elements
TotalCalls(cnt) == cnt["a"] + cnt["b"]
NoCall == [op |-> "none", element |-> "-", ret |-> 0]

Min(a, b) == IF a < b THEN a ELSE b
Max(a, b) == IF a > b THEN a ELSE b

-----------------------------------------------------------------------------
(* Sizing: ideal_size() and the hashcount expression of the init functions *)

\* -log(accuracy) / pow(log(2.0), 2) in millionths, for accuracy = acc / 100
\* held in a float (the value ideal_size multiplies expected by)
NegLogOverLog2Sq(acc) ==
    CASE acc = 1  -> 9585058
      [] acc = 10 -> 4792529
      [] acc = 20 -> 3349832
      [] acc = 30 -> 2505906
      [] acc = 50 -> 1442695
      [] acc = 70 -> 742371
      [] acc = 90 -> 219294

\* ideal_size(): the double result is truncated by the conversion to size_t
ideal_size(expected, acc) == (expected * NegLogOverLog2Sq(acc)) \div 1000000

\* (size / expected) * log(2), truncated by the assignment to an integer field
TimesLog2(q) == (q * 693147) \div 1000000

\* cbloom_init adds 0.5 before the truncation
TimesLog2Rounded(q) == (q * 693147 + 500000) \div 1000000

\* the (expected, accuracy in percent) pairs the filters are constructed with
InitParams == {<<1, 20>>, <<2, 10>>, <<5, 20>>}

IdleBloom  == bf = Idle /\ bf_oob = 0 /\ bf_added = {}
IdleCBloom == /\ cbf = Idle /\ cbf_adds = Idle /\ cbf_removes = Idle
              /\ cbf_live = {} /\ cbf_valid = Idle /\ cbf_sat = FALSE
IdleClock  == now = 0 /\ ticks = 0
IdleIO     == disk = Idle /\ dst = Idle /\ bf2 = Idle /\ heap = Idle
IdleTD     == tdbf = Idle /\ td_added = Idle
IdleTDC    == /\ tdcbf = Idle /\ tdc_adds = Idle /\ tdc_removes = Idle
              /\ tdc_valid = Idle /\ tdc_added = Idle /\ tdc_swept = FALSE

-----------------------------------------------------------------------------
(* bloom.c : plain Bloom filter *)

TestBit(byte, bit) == (byte \div (2^bit)) % 2 = 1
SetBit(byte, bit)  == IF TestBit(byte, bit) THEN byte ELSE byte + 2^bit

bloom_init(expected, acc) ==
    LET size == ideal_size(expected, acc) IN
    [ size        |-> size,
      hashcount   |-> TimesLog2(size \div expected),
      bitmap_size |-> size \div 8,
      expected    |-> expected,
      accuracy    |-> acc,
      insertions  |-> 0,
      bitmap      |-> [i \in 0 .. (size \div 8) - 1 |-> 0] ]

\* calculate_positions()
byte_position(position) == position \div 8
bit_position(position)  == position % 8

\* bf->bitmap[byte]: a byte index past bitmap_size reads the heap byte
\* that follows the allocation
ReadByte(f, oob, byte) == IF byte < f.bitmap_size THEN f.bitmap[byte] ELSE oob

\* bf->bitmap[byte] |= (0x01 << bit), on the pair <<bitmap, oob>>
OrBit(f, m, byte, bit) ==
    IF byte < f.bitmap_size
    THEN <<[m[1] EXCEPT ![byte] = SetBit(@, bit)], m[2]>>
    ELSE <<m[1], SetBit(m[2], bit)>>

Position(f, element, i) == hashes[element][i] % f.size

bloom_lookup(f, oob, element) ==
    \A i \in 0 .. f.hashcount - 1 :
        LET result == Position(f, element, i) IN
        TestBit(ReadByte(f, oob, byte_position(result)), bit_position(result))

\* the loop of bloom_add: the memory after setting the bits of hashes 0..i-1
RECURSIVE AddBits(_, _, _, _)
AddBits(f, m, element, i) ==
    IF i = 0 THEN m
    ELSE LET result == Position(f, element, i - 1) IN
         OrBit(f, AddBits(f, m, element, i - 1),
               byte_position(result), bit_position(result))

BloomWrite(element, op, ret) ==
    LET m == AddBits(bf, <<bf.bitmap, bf_oob>>, element, bf.hashcount) IN
    /\ bf # Idle
    /\ bf.insertions < MaxInsertions
    /\ bf' = [bf EXCEPT !.bitmap = m[1],
                        !.insertions = IF bloom_lookup(bf, bf_oob, element)
                                       THEN @ ELSE @ + 1]
    /\ bf_oob' = m[2]
    /\ bf_added' = bf_added \cup {element}
    /\ last' = [op |-> op, element |-> element, ret |-> ret]
    /\ UNCHANGED notBloom

bloom_add(element) == BloomWrite(element, "bloom_add", 0)

\* the loop of bloom_lookup_or_add over hashes 0..i-1: the memory and
\* found_all, a bit being set only where it is found clear
RECURSIVE LookupOrAddLoop(_, _, _, _)
LookupOrAddLoop(f, m, element, i) ==
    IF i = 0 THEN [m |-> m, found_all |-> TRUE]
    ELSE LET prev   == LookupOrAddLoop(f, m, element, i - 1)
             result == Position(f, element, i - 1)
             byte   == byte_position(result)
             bit    == bit_position(result)
             cur    == IF byte < f.bitmap_size THEN prev.m[1][byte] ELSE prev.m[2]
         IN  IF ~TestBit(cur, bit)
             THEN [m |-> OrBit(f, prev.m, byte, bit), found_all |-> FALSE]
             ELSE prev

bloom_lookup_or_add(element) ==
    LET r == LookupOrAddLoop(bf, <<bf.bitmap, bf_oob>>, element, bf.hashcount) IN
    /\ bf # Idle
    /\ bf.insertions < MaxInsertions
    /\ bf' = [bf EXCEPT !.bitmap = r.m[1],
                        !.insertions = IF r.found_all THEN @ ELSE @ + 1]
    /\ bf_oob' = r.m[2]
    /\ bf_added' = bf_added \cup {element}
    /\ last' = [op |-> "bloom_lookup_or_add", element |-> element,
                ret |-> IF r.found_all THEN 1 ELSE 0]
    /\ UNCHANGED notBloom

bloom_add_if_not_present(element) ==
    /\ bf # Idle
    /\ IF bloom_lookup(bf, bf_oob, element)
       THEN /\ last' = [op |-> "bloom_add_if_not_present", element |-> element,
                        ret |-> 1]
            /\ bf_added' = bf_added \cup {element}
            /\ UNCHANGED <<bf, bf_oob, notBloom>>
       ELSE BloomWrite(element, "bloom_add_if_not_present", 0)

bloom_clear ==
    /\ bf # Idle
    /\ bf' = [bf EXCEPT !.bitmap = [i \in DOMAIN bf.bitmap |-> 0], !.insertions = 0]
    /\ bf_added' = {}
    /\ last' = [op |-> "bloom_clear", element |-> "-", ret |-> 0]
    /\ UNCHANGED <<bf_oob, notBloom>>

\* The byte after the bitmap allocation belongs to the allocator or to a
\* neighbouring object; the program may rewrite it at any time.
OobVals == {0, 255}
HeapClobber ==
    /\ bf # Idle
    /\ bf.size % 8 # 0
    /\ \E v \in OobVals : bf_oob' = v
    /\ bf_oob' # bf_oob
    /\ last' = [op |-> "heap", element |-> "-", ret |-> 0]
    /\ UNCHANGED <<bf, bf_added, notBloom>>

InitBloom ==
    /\ \E p \in InitParams : bf = bloom_init(p[1], p[2])
    /\ hashes \in [Elements -> [0 .. bf.hashcount - 1 -> HashVals]]
    /\ bf_oob \in OobVals
    /\ bf_added = {}
    /\ last = NoCall
    /\ IdleCBloom /\ IdleClock /\ IdleTD /\ IdleTDC /\ IdleIO

NextBloom ==
    \/ \E e \in Elements : bloom_add(e)
    \/ \E e \in Elements : bloom_lookup_or_add(e)
    \/ \E e \in Elements : bloom_add_if_not_present(e)
    \/ bloom_clear
    \/ HeapClobber

SpecBloom == InitBloom /\ [][NextBloom]_vars

-----------------------------------------------------------------------------
(* cbloom.c : counting Bloom filter *)

UINT8_MAX  == 2^8 - 1
UINT16_MAX == 2^16 - 1
UINT32_MAX == 2^(WordBits - 2) - 1     \* scaled, see the note on numbers
UINT64_MAX == WORD_MAX                 \* scaled, see the note on numbers

CounterSizes == {"COUNTER_4BIT", "COUNTER_8BIT", "COUNTER_16BIT",
                 "COUNTER_32BIT", "COUNTER_64BIT"}

\* bounds on the history of a behaviour: an element is added at most MaxAdds
\* and removed at most MaxRemoves times, and an element other than "a" at
\* most MaxMinorCalls times
MaxAdds      == 8
MaxMinorCalls == 1
MaxRemoves   == 8

\* the switch of cbloom_init
countermap_size(size, csize) ==
    CASE csize = "COUNTER_4BIT"  -> (size + 1) \div 2
      [] csize = "COUNTER_8BIT"  -> size
      [] csize = "COUNTER_16BIT" -> size * 2
      [] csize = "COUNTER_32BIT" -> size * 4
      [] csize = "COUNTER_64BIT" -> size * 8

\* number of cells of the countermap: bytes holding two nibbles for 4 bit
\* counters, one cell per counter for the wider ones
CounterCells(size, csize) ==
    IF csize = "COUNTER_4BIT" THEN (size + 1) \div 2 ELSE size

cbloom_init(expected, acc, csize) ==
    LET size == ideal_size(expected, acc) IN
    [ size            |-> size,
      hashcount       |-> TimesLog2Rounded(size \div expected),
      csize           |-> csize,
      accuracy        |-> acc,
      expected        |-> expected,
      countermap_size |-> countermap_size(size, csize),
      countermap      |-> [i \in 0 .. CounterCells(size, csize) - 1 |-> 0] ]

get_counter(f, position) ==
    IF f.csize = "COUNTER_4BIT"
    THEN LET byte == f.countermap[position \div 2] IN
         IF position % 2 = 0 THEN byte % 16 ELSE byte \div 16
    ELSE f.countermap[position]

\* the value set_counter stores into a counter of the given width
ClampCounter(csize, value) ==
    CASE csize = "COUNTER_4BIT"  -> IF value > 15 THEN 15 ELSE value
      [] csize = "COUNTER_8BIT"  -> IF value > UINT8_MAX THEN UINT8_MAX ELSE value
      [] csize = "COUNTER_16BIT" -> IF value > UINT16_MAX THEN UINT16_MAX ELSE value
      [] csize = "COUNTER_32BIT" -> IF value > UINT32_MAX THEN UINT32_MAX ELSE value
      [] csize = "COUNTER_64BIT" -> value

\* set_counter(): the filter with the counter at position set to value
set_counter(f, position, value) ==
    IF f.csize = "COUNTER_4BIT"
    THEN LET byte == f.countermap[position \div 2]
             v    == ClampCounter(f.csize, value)
         IN  [f EXCEPT !.countermap[position \div 2] =
                  IF position % 2 = 0
                  THEN (byte \div 16) * 16 + v
                  ELSE (byte % 16) + v * 16]
    ELSE [f EXCEPT !.countermap[position] = ClampCounter(f.csize, value)]

\* counter_value + amount is a uint64_t sum
inc_counter_amount(f, position, amount) ==
    set_counter(f, position, (get_counter(f, position) + amount) % Word)

\* an increment that adds two to the counter
inc_counter_twice(f, position) == inc_counter_amount(f, position, 2)

inc_counter(f, position) == inc_counter_amount(f, position, 1)

dec_counter_amount(f, position, amount) ==
    LET counter_value == get_counter(f, position) IN
    IF counter_value <= amount
    THEN set_counter(f, position, 0)
    ELSE set_counter(f, position, counter_value - amount)

\* a decrement that takes two from the counter
dec_counter_twice(f, position) == dec_counter_amount(f, position, 2)

dec_counter(f, position) == dec_counter_amount(f, position, 1)

\* hashes[i] % size
CPositions(f, element) ==
    [i \in 0 .. f.hashcount - 1 |-> hashes[element][i] % f.size]

RECURSIVE CountLoop(_, _, _, _)
CountLoop(f, pos, i, count) ==
    IF i = f.hashcount THEN count
    ELSE CountLoop(f, pos, i + 1, Min(count, get_counter(f, pos[i])))

cbloom_count(f, element) ==
    CountLoop(f, CPositions(f, element), 0, UINT64_MAX)

cbloom_lookup(f, element) ==
    \A i \in 0 .. f.hashcount - 1 :
        get_counter(f, CPositions(f, element)[i]) # 0

\* the loop of cbloom_add over hashes 0..i-1
RECURSIVE IncLoop(_, _, _)
IncLoop(f, pos, i) ==
    IF i = 0 THEN f ELSE inc_counter(IncLoop(f, pos, i - 1), pos[i - 1])

\* the second loop of cbloom_remove over hashes 0..i-1
RECURSIVE DecLoop(_, _, _)
DecLoop(f, pos, i) ==
    IF i = 0 THEN f ELSE dec_counter(DecLoop(f, pos, i - 1), pos[i - 1])

\* a remove that decrements without looking at the counters first
RemoveUnchecked(f, element) ==
    DecLoop(f, CPositions(f, element), f.hashcount)

\* cbloom_remove(): the filter after the call
RemoveResult(f, element) ==
    LET positions    == CPositions(f, element)
        shouldremove == \A i \in 0 .. f.hashcount - 1 :
                            get_counter(f, positions[i]) # 0
    IN  IF shouldremove THEN DecLoop(f, positions, f.hashcount) ELSE f

\* some increment of the add loop meets a counter that is already at its maximum
RECURSIVE MeetsMax(_, _, _)
MeetsMax(f, pos, i) ==
    /\ i > 0
    /\ \/ MeetsMax(f, pos, i - 1)
       \/ get_counter(IncLoop(f, pos, i - 1), pos[i - 1])
              = ClampCounter(f.csize, UINT64_MAX)

cbloom_add(element) ==
    /\ cbf # Idle
    /\ cbf_adds[element] < MaxAdds
    /\ element = "a" \/ cbf_adds[element] < MaxMinorCalls
    /\ cbf' = IncLoop(cbf, CPositions(cbf, element), cbf.hashcount)
    /\ cbf_adds' = [cbf_adds EXCEPT ![element] = @ + 1]
    /\ cbf_live' = cbf_live \cup {element}
    /\ cbf_sat' = (cbf_sat \/ MeetsMax(cbf, CPositions(cbf, element), cbf.hashcount))
    /\ last' = NoCall
    /\ UNCHANGED <<notCBloom, cbf_removes, cbf_valid>>

cbloom_remove(element) ==
    /\ cbf # Idle
    /\ cbf_removes[element] < MaxRemoves
    /\ element = "a" \/ cbf_removes[element] < MaxMinorCalls
    /\ cbf' = RemoveResult(cbf, element)
    /\ cbf_removes' = [cbf_removes EXCEPT ![element] = @ + 1]
    /\ cbf_live' = cbf_live \ {element}
    /\ cbf_valid' = [cbf_valid EXCEPT ![element] =
                        @ /\ cbf_removes[element] < cbf_adds[element]]
    /\ last' = NoCall
    /\ UNCHANGED <<notCBloom, cbf_adds, cbf_sat>>

\* the loop of cbloom_lookup_or_add over hashes 0..i-1: the filter and
\* is_present; every position is incremented, whatever its counter held
RECURSIVE COrAddLoop(_, _, _)
COrAddLoop(f, pos, i) ==
    IF i = 0 THEN [f |-> f, is_present |-> TRUE]
    ELSE LET prev          == COrAddLoop(f, pos, i - 1)
             counter_value == get_counter(prev.f, pos[i - 1])
         IN  [f          |-> inc_counter(prev.f, pos[i - 1]),
              is_present |-> prev.is_present /\ counter_value # 0]

cbloom_lookup_or_add(element) ==
    LET r == COrAddLoop(cbf, CPositions(cbf, element), cbf.hashcount) IN
    /\ cbf # Idle
    /\ cbf_adds[element] < MaxAdds
    /\ element = "a" \/ cbf_adds[element] < MaxMinorCalls
    /\ cbf' = r.f
    /\ cbf_adds' = [cbf_adds EXCEPT ![element] = @ + 1]
    /\ cbf_live' = cbf_live \cup {element}
    /\ cbf_sat' = (cbf_sat \/ MeetsMax(cbf, CPositions(cbf, element), cbf.hashcount))
    /\ last' = [op |-> "cbloom_lookup_or_add", element |-> element,
                ret |-> IF r.is_present THEN 1 ELSE 0]
    /\ UNCHANGED <<notCBloom, cbf_removes, cbf_valid>>

cbloom_add_if_not_present(element) ==
    /\ cbf # Idle
    /\ cbf_adds[element] < MaxAdds
    /\ element = "a" \/ cbf_adds[element] < MaxMinorCalls
    /\ IF cbloom_lookup(cbf, element)
       THEN /\ last' = [op |-> "cbloom_add_if_not_present", element |-> element,
                        ret |-> 1]
            /\ UNCHANGED <<notCBloom, cbloomVars>>
       ELSE /\ cbf' = IncLoop(cbf, CPositions(cbf, element), cbf.hashcount)
            /\ cbf_adds' = [cbf_adds EXCEPT ![element] = @ + 1]
            /\ cbf_live' = cbf_live \cup {element}
            /\ cbf_sat' = (cbf_sat \/ MeetsMax(cbf, CPositions(cbf, element),
                                               cbf.hashcount))
            /\ last' = [op |-> "cbloom_add_if_not_present", element |-> element,
                        ret |-> 0]
            /\ UNCHANGED <<notCBloom, cbf_removes, cbf_valid>>

\* counter widths and sizing parameters of the counting filters of the model
CInitSizes  == {"COUNTER_4BIT", "COUNTER_8BIT"}
CInitParams == {<<1, 20>>, <<2, 70>>}

InitCBloom ==
    /\ \E p \in CInitParams, cs \in CInitSizes : cbf = cbloom_init(p[1], p[2], cs)
    /\ hashes \in HashTables(cbf.hashcount)
    /\ cbf_adds = [e \in Elements |-> 0]
    /\ cbf_removes = [e \in Elements |-> 0]
    /\ cbf_live = {}
    /\ cbf_valid = [e \in Elements |-> TRUE]
    /\ cbf_sat = FALSE
    /\ last = NoCall
    /\ IdleBloom /\ IdleClock /\ IdleTD /\ IdleTDC /\ IdleIO

NextCBloom ==
    \/ \E e \in Elements : cbloom_add(e)
    \/ \E e \in Elements : cbloom_remove(e)

SpecCBloom == InitCBloom /\ [][NextCBloom]_vars

-----------------------------------------------------------------------------
(* The monotonic clock shared by the time-decaying variants.               *)

MaxTicks   == 2
ClockSteps == {1, 255}

\* before every clock value: the element was not added
NoTime == 0 - 1

\* get_monotonic_time() returns a later value than the call before
Tick ==
    /\ tdbf # Idle \/ tdcbf # Idle
    /\ ticks < MaxTicks
    /\ \E d \in ClockSteps : now' = now + d
    /\ ticks' = ticks + 1
    /\ last' = NoCall
    /\ UNCHANGED <<hashes, bloomVars, cbloomVars, tdVars, tdcVars, ioVars>>

-----------------------------------------------------------------------------
(* tdbloom.c: the time-decaying filter; a slot holds the timestamp of its  *)
(* last write, 0 for never written.                                         *)

\* timeout (seconds) of the filters of the model and the hash values used
TDTimeouts == {2}
TDParams   == {<<1, 20>>}

TimestampBytes(timeout) ==
    IF timeout < UINT8_MAX THEN 1
    ELSE IF timeout < UINT16_MAX THEN 2
    ELSE IF timeout < UINT32_MAX THEN 4 ELSE 8

TimestampMax(bytes) ==
    CASE bytes = 1 -> UINT8_MAX
      [] bytes = 2 -> UINT16_MAX
      [] bytes = 4 -> UINT32_MAX
      [] bytes = 8 -> UINT64_MAX

tdbloom_init(expected, acc, timeout, clock) ==
    LET size  == ideal_size(expected, acc)
        bytes == TimestampBytes(timeout)
    IN  [size        |-> size,
         hashcount   |-> TimesLog2(size \div expected),
         timeout     |-> timeout,
         expected    |-> expected,
         accuracy    |-> acc,
         start_time  |-> clock,
         max_time    |-> TimestampMax(bytes),
         bytes       |-> bytes,
         filter_size |-> size * bytes,
         filter      |-> [i \in 0 .. size - 1 |-> 0]]

\* the timestamp tdbloom_add, tdbloom_lookup and tdbloom_has_expired compute
AddTimestamp(f, clock) ==
    ((((((clock - f.start_time) % Word) % f.max_time) + f.max_time) % Word)
        % f.max_time) + 1

\* the timestamp tdbloom_clear_expired and tdbloom_count_expired compute
SweepTimestamp(f, clock) ==
    (((clock - f.start_time + f.max_time) % Word) % f.max_time) + 1

\* ((ts - value + max_time) % max_time) in size_t arithmetic
ModularAge(f, ts, value) == ((ts - value + f.max_time) % Word) % f.max_time

TDPosition(f, element, i) == hashes[element][i] % f.size

TDSlots(f, element) == {TDPosition(f, element, i) : i \in 0 .. f.hashcount - 1}

tdbloom_lookup(f, clock, element) ==
    IF ((clock - f.start_time) % Word) > f.max_time THEN FALSE
    ELSE \A i \in 0 .. f.hashcount - 1 :
             LET value == f.filter[TDPosition(f, element, i)]
             IN  ~ (value = 0
                    \/ ModularAge(f, AddTimestamp(f, clock), value) > f.timeout)

tdbloom_has_expired(f, clock, element) ==
    \E i \in 0 .. f.hashcount - 1 :
        LET value == f.filter[TDPosition(f, element, i)]
        IN  value # 0 /\ ModularAge(f, AddTimestamp(f, clock), value) > f.timeout

SlotExpired(f, clock, i) ==
    /\ f.filter[i] # 0
    /\ ModularAge(f, SweepTimestamp(f, clock), f.filter[i]) > f.timeout

tdbloom_add(element) ==
    /\ tdbf # Idle
    /\ td_added[element] # now
    /\ LET ts == AddTimestamp(tdbf, now) % (TimestampMax(tdbf.bytes) + 1)
       IN  tdbf' = [tdbf EXCEPT !.filter =
                      [i \in 0 .. tdbf.size - 1 |->
                          IF i \in TDSlots(tdbf, element) THEN ts ELSE @[i]]]
    /\ td_added' = [td_added EXCEPT ![element] = now]
    /\ last' = NoCall
    /\ UNCHANGED <<notTD, clockVars>>

tdbloom_clear ==
    /\ tdbf # Idle
    /\ tdbf' = [tdbf EXCEPT !.filter = [i \in 0 .. tdbf.size - 1 |-> 0],
                            !.start_time = now]
    /\ td_added' = [e \in Elements |-> NoTime]
    /\ last' = NoCall
    /\ UNCHANGED <<notTD, clockVars>>

tdbloom_clear_expired ==
    /\ tdbf # Idle
    /\ tdbf' = [tdbf EXCEPT !.filter =
                  [i \in 0 .. tdbf.size - 1 |->
                      IF SlotExpired(tdbf, now, i) THEN 0 ELSE @[i]]]
    /\ last' = [op |-> "tdbloom_clear_expired", element |-> "-",
                ret |-> Cardinality({i \in 0 .. tdbf.size - 1 :
                                        SlotExpired(tdbf, now, i)})]
    /\ UNCHANGED <<notTD, clockVars, td_added>>

InitTD ==
    /\ now = 0 /\ ticks = 0
    /\ \E p \in TDParams, t \in TDTimeouts : tdbf = tdbloom_init(p[1], p[2], t, now)
    /\ hashes \in [Elements -> [0 .. tdbf.hashcount - 1 -> HashVals]]
    /\ td_added = [e \in Elements |-> NoTime]
    /\ last = NoCall
    /\ IdleBloom /\ IdleCBloom /\ IdleTDC /\ IdleIO

NextTD ==
    \/ Tick
    \/ \E e \in Elements : tdbloom_add(e)
    \/ tdbloom_clear
    \/ tdbloom_clear_expired

SpecTD == InitTD /\ [][NextTD]_vars

\* The sweep over every timestamp width in use: a filter with one byte per
\* slot and one with eight (timeout >= UINT32_MAX), and a clock that also
\* advances by more than the long timeout.
SweepTimeouts == {2, UINT32_MAX}
LongStep      == UINT32_MAX + 1

LongTick ==
    /\ tdbf # Idle
    /\ ticks < MaxTicks
    /\ now' = now + LongStep
    /\ ticks' = ticks + 1
    /\ last' = NoCall
    /\ UNCHANGED <<hashes, bloomVars, cbloomVars, tdVars, tdcVars, ioVars>>

InitSweep ==
    /\ now = 0 /\ ticks = 0
    /\ \E p \in TDParams, t \in SweepTimeouts :
          tdbf = tdbloom_init(p[1], p[2], t, now)
    /\ hashes \in [Elements -> [0 .. tdbf.hashcount - 1 -> HashVals]]
    /\ td_added = [e \in Elements |-> NoTime]
    /\ last = NoCall
    /\ IdleBloom /\ IdleCBloom /\ IdleTDC /\ IdleIO

NextSweep ==
    \/ Tick
    \/ LongTick
    \/ \E e \in Elements : tdbloom_add(e)
    \/ tdbloom_clear_expired

SpecSweep == InitSweep /\ [][NextSweep]_vars

-----------------------------------------------------------------------------
(* tdcbloom.c: the time-decaying counting filter; an entry holds a counter *)
(* and the timestamp of its last add.                                       *)

MaxTdcAdds    == 2
MaxTdcRemoves == 2

TimerSizes == {"TIMER_8BIT", "TIMER_16BIT", "TIMER_32BIT", "TIMER_64BIT"}

\* parameters of the filters of the model
TDCParams       == {<<1, 20>>}
TDCTimeouts     == {1}
TDCCounterSizes == {"COUNTER_8BIT"}
TDCTimerSizes   == {"TIMER_8BIT", "TIMER_64BIT"}

CounterMax(csize) ==
    CASE csize = "COUNTER_8BIT"  -> UINT8_MAX
      [] csize = "COUNTER_16BIT" -> UINT16_MAX
      [] csize = "COUNTER_32BIT" -> UINT32_MAX
      [] csize = "COUNTER_64BIT" -> UINT64_MAX

TimerMax(tsize) ==
    CASE tsize = "TIMER_8BIT"  -> UINT8_MAX
      [] tsize = "TIMER_16BIT" -> UINT16_MAX
      [] tsize = "TIMER_32BIT" -> UINT32_MAX
      [] tsize = "TIMER_64BIT" -> UINT64_MAX

SizeBytes(max) ==
    CASE max = UINT8_MAX  -> 1
      [] max = UINT16_MAX -> 2
      [] max = UINT32_MAX -> 4
      [] max = UINT64_MAX -> 8

EmptyEntry == [counter |-> 0, timestamp |-> 0]

tdcbloom_init(expected, acc, timeout, countersize, timersize, clock) ==
    LET size == ideal_size(expected, acc)
    IN  [size               |-> size,
         hashcount          |-> TimesLog2(size \div expected),
         timeout            |-> timeout,
         start_time         |-> clock,
         counter_size       |-> countersize,
         timer_size         |-> timersize,
         counter_size_bytes |-> SizeBytes(CounterMax(countersize)),
         timer_size_bytes   |-> SizeBytes(TimerMax(timersize)),
         entry_size         |-> SizeBytes(CounterMax(countersize))
                                    + SizeBytes(TimerMax(timersize)),
         max_time           |-> TimerMax(timersize),
         entrymap           |-> [i \in 0 .. size - 1 |-> EmptyEntry]]

increment_counter(counter, csize) ==
    IF counter < CounterMax(csize) THEN counter + 1 ELSE counter

decrement_counter(counter, csize) ==
    IF counter > 0 THEN counter - 1 ELSE counter

\* the value set_timestamp stores for clock value ts
set_timestamp(tsize, ts) == (ts % TimerMax(tsize)) % (TimerMax(tsize) + 1)

TDCPosition(f, element, i) == hashes[element][i] % f.size

TDCSlots(f, element) == {TDCPosition(f, element, i) : i \in 0 .. f.hashcount - 1}

RECURSIVE TDCAddLoop(_, _, _, _)
TDCAddLoop(f, clock, element, i) ==
    IF i = 0 THEN f
    ELSE LET g == TDCAddLoop(f, clock, element, i - 1)
             p == TDCPosition(f, element, i - 1)
         IN  [g EXCEPT !.entrymap[p] =
                 [counter   |-> increment_counter(@.counter, f.counter_size),
                  timestamp |-> set_timestamp(f.timer_size, clock)]]

RECURSIVE TDCRemoveLoop(_, _, _)
TDCRemoveLoop(f, element, i) ==
    IF i = 0 THEN f
    ELSE LET g == TDCRemoveLoop(f, element, i - 1)
             p == TDCPosition(f, element, i - 1)
         IN  [g EXCEPT !.entrymap[p].counter =
                 decrement_counter(@, f.counter_size)]

\* ((now - timestamp + max_time) % max_time) in uint64_t arithmetic
LookupAge(f, clock, timestamp) ==
    ((clock - timestamp + f.max_time) % Word) % f.max_time

\* ((now - timestamp) % max_time) in uint64_t arithmetic
CountAge(f, clock, timestamp) == ((clock - timestamp) % Word) % f.max_time

\* (now - entry_ts) in uint64_t arithmetic
SweepAge(clock, timestamp) == (clock - timestamp) % Word

tdcbloom_lookup(f, clock, element) ==
    \A i \in 0 .. f.hashcount - 1 :
        LET entry == f.entrymap[TDCPosition(f, element, i)]
        IN  /\ entry.counter # 0
            /\ ~ (LookupAge(f, clock, entry.timestamp) > f.timeout)

RECURSIVE TDCCountLoop(_, _, _, _)
TDCCountLoop(f, clock, element, i) ==
    IF i = 0 THEN UINT64_MAX
    ELSE LET entry == f.entrymap[TDCPosition(f, element, i - 1)]
         IN  Min(entry.counter, TDCCountLoop(f, clock, element, i - 1))

tdcbloom_count(f, clock, element) ==
    IF \E i \in 0 .. f.hashcount - 1 :
           LET entry == f.entrymap[TDCPosition(f, element, i)]
           IN  \/ entry.counter = 0
               \/ CountAge(f, clock, entry.timestamp) > f.timeout
    THEN 0
    ELSE TDCCountLoop(f, clock, element, f.hashcount)

EntryReaped(f, clock, i) ==
    /\ f.entrymap[i].timestamp # 0
    /\ SweepAge(clock, f.entrymap[i].timestamp) > f.timeout

tdcbloom_add(element) ==
    /\ tdcbf # Idle
    /\ TotalCalls(tdc_adds) < MaxTdcAdds
    /\ tdcbf' = TDCAddLoop(tdcbf, now, element, tdcbf.hashcount)
    /\ tdc_adds' = [tdc_adds EXCEPT ![element] = @ + 1]
    /\ tdc_added' = [tdc_added EXCEPT ![element] = now]
    /\ last' = NoCall
    /\ UNCHANGED <<notTDC, clockVars, tdc_removes, tdc_valid, tdc_swept>>

tdcbloom_remove(element) ==
    /\ tdcbf # Idle
    /\ TotalCalls(tdc_removes) < MaxTdcRemoves
    /\ tdcbf' = TDCRemoveLoop(tdcbf, element, tdcbf.hashcount)
    /\ tdc_removes' = [tdc_removes EXCEPT ![element] = @ + 1]
    /\ tdc_valid' = [tdc_valid EXCEPT ![element] =
                        @ /\ tdc_removes[element] < tdc_adds[element]]
    /\ last' = NoCall
    /\ UNCHANGED <<notTDC, clockVars, tdc_adds, tdc_added, tdc_swept>>

tdcbloom_clear ==
    /\ tdcbf # Idle
    /\ tdcbf' = [tdcbf EXCEPT
                    !.entrymap = [i \in 0 .. tdcbf.size - 1 |-> EmptyEntry],
                    !.start_time = now]
    /\ tdc_added' = [e \in Elements |-> NoTime]
    /\ tdc_swept' = TRUE
    /\ last' = NoCall
    /\ UNCHANGED <<notTDC, clockVars, tdc_adds, tdc_removes, tdc_valid>>

tdcbloom_clear_expired ==
    /\ tdcbf # Idle
    /\ LET reaped == {i \in 0 .. tdcbf.size - 1 : EntryReaped(tdcbf, now, i)}
       IN  /\ tdcbf' = [tdcbf EXCEPT !.entrymap =
                          [i \in 0 .. tdcbf.size - 1 |->
                              IF i \in reaped THEN EmptyEntry ELSE @[i]]]
           /\ tdc_swept' = (tdc_swept \/ reaped # {})
           /\ last' = [op |-> "tdcbloom_clear_expired", element |-> "-",
                       ret |-> Cardinality(reaped)]
    /\ UNCHANGED <<notTDC, clockVars, tdc_adds, tdc_removes, tdc_valid, tdc_added>>

InitTDC ==
    /\ now = 0 /\ ticks = 0
    /\ \E p \in TDCParams, t \in TDCTimeouts,
          cs \in TDCCounterSizes, ts \in TDCTimerSizes :
           tdcbf = tdcbloom_init(p[1], p[2], t, cs, ts, now)
    /\ hashes \in HashTables(tdcbf.hashcount)
    /\ tdc_adds = [e \in Elements |-> 0]
    /\ tdc_removes = [e \in Elements |-> 0]
    /\ tdc_valid = [e \in Elements |-> TRUE]
    /\ tdc_added = [e \in Elements |-> NoTime]
    /\ tdc_swept = FALSE
    /\ last = NoCall
    /\ IdleBloom /\ IdleCBloom /\ IdleTD /\ IdleIO

NextTDC ==
    \/ Tick
    \/ \E e \in Elements : tdcbloom_add(e)
    \/ \E e \in Elements : tdcbloom_remove(e)
    \/ tdcbloom_clear
    \/ tdcbloom_clear_expired

SpecTDC == InitTDC /\ [][NextTDC]_vars

-----------------------------------------------------------------------------
(* The two counting variants side by side: a behaviour is one of a         *)
(* counting filter or one of a time-decaying counting filter.               *)

InitCounting == InitCBloom \/ InitTDC

NextCounting == NextCBloom \/ NextTDC

SpecCounting == InitCounting /\ [][NextCounting]_vars

-----------------------------------------------------------------------------
(* The counter primitives on their own: filters of every counter width     *)
(* whose counters hold values next to 0 and next to the maximum, and the   *)
(* increment and decrement of one counter as the steps.                    *)

\* a counter is stepped while it is this close to 0 or to its maximum
CounterWindow == 2

NearBounds(value, max) ==
    value <= CounterWindow \/ value >= max - CounterWindow

CounterInputs(max) == {0, 1, max - 1, max}

RECURSIVE FillCounters(_, _, _)
FillCounters(f, vals, i) ==
    IF i = 0 THEN f
    ELSE set_counter(FillCounters(f, vals, i - 1), i - 1, vals[i - 1])

CounterInc(position) ==
    /\ cbf # Idle
    /\ NearBounds((get_counter(cbf, position) + 1) % Word,
                  ClampCounter(cbf.csize, UINT64_MAX))
    /\ cbf' = inc_counter(cbf, position)
    /\ last' = [op |-> "inc_counter", element |-> "-", ret |-> position]
    /\ UNCHANGED <<notCBloom, cbf_adds, cbf_removes, cbf_live, cbf_valid, cbf_sat>>

CounterDec(position) ==
    /\ cbf # Idle
    /\ NearBounds(Max(get_counter(cbf, position) - 1, 0),
                  ClampCounter(cbf.csize, UINT64_MAX))
    /\ cbf' = dec_counter(cbf, position)
    /\ last' = [op |-> "dec_counter", element |-> "-", ret |-> position]
    /\ UNCHANGED <<notCBloom, cbf_adds, cbf_removes, cbf_live, cbf_valid, cbf_sat>>

TdcCounterInc(position) ==
    /\ tdcbf # Idle
    /\ NearBounds(Min(tdcbf.entrymap[position].counter + 1,
                      CounterMax(tdcbf.counter_size)),
                  CounterMax(tdcbf.counter_size))
    /\ tdcbf' = [tdcbf EXCEPT !.entrymap[position].counter =
                    increment_counter(@, tdcbf.counter_size)]
    /\ last' = [op |-> "increment_counter", element |-> "-", ret |-> position]
    /\ UNCHANGED <<notTDC, clockVars, tdc_adds, tdc_removes, tdc_valid,
                   tdc_added, tdc_swept>>

TdcCounterDec(position) ==
    /\ tdcbf # Idle
    /\ NearBounds(Max(tdcbf.entrymap[position].counter - 1, 0),
                  CounterMax(tdcbf.counter_size))
    /\ tdcbf' = [tdcbf EXCEPT !.entrymap[position].counter =
                    decrement_counter(@, tdcbf.counter_size)]
    /\ last' = [op |-> "decrement_counter", element |-> "-", ret |-> position]
    /\ UNCHANGED <<notTDC, clockVars, tdc_adds, tdc_removes, tdc_valid,
                   tdc_added, tdc_swept>>

InitCounterC ==
    /\ \E cs \in CounterSizes :
          \E vals \in [0 .. 2 -> CounterInputs(ClampCounter(cs, UINT64_MAX))] :
              cbf = FillCounters(cbloom_init(1, 20, cs), vals, 3)
    /\ hashes = [e \in Elements |-> [i \in 0 .. cbf.hashcount - 1 |-> 0]]
    /\ cbf_adds = [e \in Elements |-> 0]
    /\ cbf_removes = [e \in Elements |-> 0]
    /\ cbf_live = {}
    /\ cbf_valid = [e \in Elements |-> TRUE]
    /\ cbf_sat = FALSE
    /\ last = NoCall
    /\ IdleBloom /\ IdleClock /\ IdleTD /\ IdleTDC /\ IdleIO

InitCounterT ==
    /\ now = 0 /\ ticks = 0
    /\ \E cs \in CounterSizes \ {"COUNTER_4BIT"} :
          \E vals \in [0 .. 2 -> CounterInputs(CounterMax(cs))] :
              tdcbf = [tdcbloom_init(1, 20, 1, cs, "TIMER_8BIT", now)
                          EXCEPT !.entrymap =
                              [i \in 0 .. 2 |-> [counter |-> vals[i], timestamp |-> 0]]]
    /\ hashes = [e \in Elements |-> [i \in 0 .. tdcbf.hashcount - 1 |-> 0]]
    /\ tdc_adds = [e \in Elements |-> 0]
    /\ tdc_removes = [e \in Elements |-> 0]
    /\ tdc_valid = [e \in Elements |-> TRUE]
    /\ tdc_added = [e \in Elements |-> NoTime]
    /\ tdc_swept = FALSE
    /\ last = NoCall
    /\ IdleBloom /\ IdleCBloom /\ IdleTD /\ IdleIO

InitCounter == InitCounterC \/ InitCounterT

NextCounter ==
    \/ \E p \in 0 .. 2 : CounterInc(p)
    \/ \E p \in 0 .. 2 : CounterDec(p)
    \/ \E p \in 0 .. 2 : TdcCounterInc(p)
    \/ \E p \in 0 .. 2 : TdcCounterDec(p)

SpecCounter == InitCounter /\ [][NextCounter]_vars

-----------------------------------------------------------------------------
(* The conditional adds of the plain and of the counting filter: a         *)
(* behaviour is one of a plain filter, of a fresh counting filter, or of a  *)
(* counting filter whose counters hold values next to 0 and next to the     *)
(* maximum (as cbloom_load reads them from a file).                         *)

InitOrAdd == InitBloom \/ InitCBloom \/ InitCounterC

NextOrAdd ==
    \/ NextBloom
    \/ \E e \in Elements : cbloom_add(e)
    \/ \E e \in Elements : cbloom_lookup_or_add(e)
    \/ \E e \in Elements : cbloom_add_if_not_present(e)

SpecOrAdd == InitOrAdd /\ [][NextOrAdd]_vars

-----------------------------------------------------------------------------
(* Persistence: the save and load calls of the four variants.  A file is   *)
(* a header followed by a body; bloom_save and tdbloom_save write the      *)
(* filter struct itself as the header (pointer included), cbloom_save      *)
(* writes a cbloomfilter_file.  A call that touches the file system or the *)
(* allocator takes the step at which it fails, if any, as its input.       *)

\* sizeof(bloomfilter), sizeof(cbloomfilter_file), sizeof(tdbloom) on LP64
SizeofBloomfilter     == 56
SizeofCbloomfilterFile == 312
SizeofTdbloom         == 336

NoFile    == [kind |-> "none"]     \* nothing at the path: fopen "rb" fails
EmptyFile == [kind |-> "empty"]    \* a file of length 0
EmptyBuf  == [i \in {} |-> 0]

\* the struct a load call is handed: fields and pointer never written
FreshDst == [f |-> Idle, ptr |-> "uninit", oob |-> 0]

HeaderSize(kind) ==
    CASE kind = "bloom"   -> SizeofBloomfilter
      [] kind = "cbloom"  -> SizeofCbloomfilterFile
      [] kind = "tdbloom" -> SizeofTdbloom

\* sb.st_size after fstat
st_size(file) ==
    IF file.kind \in {"none", "empty"} THEN 0
    ELSE HeaderSize(file.kind) + file.body_bytes

\* the steps at which a save, respectively a load, can fail
SaveFailures == {"none", "fopen", "header", "buffer"}
LoadFailures == {"none", "malloc", "buffer"}

\* the addresses at which the buffer of a filter that is saved can lie
Addresses == {"0x1000", "0x2000"}

\* the file bloom_save leaves when both fwrite calls wrote their bytes: the
\* first fwrite writes the whole struct, the bitmap pointer (ptr) included
BloomImage(f, addr) ==
    [kind |-> "bloom", magic |-> "-", hdr |-> [f EXCEPT !.bitmap = EmptyBuf],
     ptr |-> addr,
     body |-> f.bitmap, body_bytes |-> f.bitmap_size, tampered |-> FALSE]

\* fwrite(ptr, size, 1, fp) returns 1 when it wrote one item of size bytes;
\* with size 0 it returns 0
FwriteOne(size, failed) == IF size = 0 \/ failed THEN 0 ELSE 1

bloom_save(f, addr, file, fail) ==
    IF fail = "fopen" THEN [ret |-> "BF_FOPEN", disk |-> file]
    ELSE IF fail = "header" THEN [ret |-> "BF_FWRITE", disk |-> EmptyFile]
    ELSE IF FwriteOne(f.bitmap_size, fail = "buffer") # 1
         THEN [ret  |-> "BF_FWRITE",
               disk |-> IF fail = "buffer"
                        THEN [BloomImage(f, addr) EXCEPT !.body = EmptyBuf, !.body_bytes = 0]
                        ELSE BloomImage(f, addr)]
         ELSE [ret |-> "BF_SUCCESS", disk |-> BloomImage(f, addr)]

bloom_load(d, file, fail, heapbyte) ==
    IF file.kind = "none" THEN [ret |-> "BF_FOPEN", d |-> d]
    ELSE IF file.kind = "empty" THEN [ret |-> "BF_FREAD", d |-> d]
    ELSE LET h == [f |-> file.hdr, ptr |-> "file", oob |-> 0] IN
         IF \/ (h.f.size \div 8) # h.f.bitmap_size
            \/ (SizeofBloomfilter + h.f.bitmap_size) % Word # st_size(file)
         THEN [ret |-> "BF_INVALIDFILE", d |-> h]
         ELSE IF fail = "malloc"
         THEN [ret |-> "BF_OUTOFMEMORY", d |-> [h EXCEPT !.ptr = "NULL"]]
         ELSE IF fail = "buffer" \/ h.f.bitmap_size = 0
         THEN [ret |-> "BF_FREAD", d |-> [h EXCEPT !.ptr = "NULL"]]
         ELSE [ret |-> "BF_SUCCESS",
               d   |-> [f   |-> [file.hdr EXCEPT !.bitmap = file.body],
                        ptr |-> "live", oob |-> heapbyte]]

CbloomMagic == "!cbloom!"

CbloomImage(f) ==
    [kind |-> "cbloom", magic |-> CbloomMagic,
     hdr |-> [f EXCEPT !.countermap = EmptyBuf],
     body |-> f.countermap, body_bytes |-> f.countermap_size, tampered |-> FALSE]

\* the header written is a zeroed cbloomfilter_file, which has no pointer
\* member: the address of the counter map does not reach the file
cbloom_save(f, addr, file, fail) ==
    IF fail = "fopen" THEN [ret |-> "CBF_FOPEN", disk |-> file]
    ELSE IF fail = "header" THEN [ret |-> "CBF_FWRITE", disk |-> EmptyFile]
    ELSE IF FwriteOne(f.countermap_size, fail = "buffer") # 1
         THEN [ret  |-> "CBF_FWRITE",
               disk |-> IF fail = "buffer"
                        THEN [CbloomImage(f) EXCEPT !.body = EmptyBuf, !.body_bytes = 0]
                        ELSE CbloomImage(f)]
         ELSE [ret |-> "CBF_SUCCESS", disk |-> CbloomImage(f)]

\* the header is read into a local cbloomfilter_file and copied field by
\* field; cbf->countermap is written by malloc only
cbloom_load(d, file, fail) ==
    IF file.kind = "none" THEN [ret |-> "CBF_FOPEN", d |-> d]
    ELSE IF file.kind = "empty" THEN [ret |-> "CBF_FREAD", d |-> d]
    ELSE LET h == [d EXCEPT !.f = file.hdr] IN
         IF (SizeofCbloomfilterFile + h.f.countermap_size) % Word # st_size(file)
         THEN [ret |-> "CBF_INVALIDFILE", d |-> h]
         ELSE IF fail = "malloc"
         THEN [ret |-> "CBF_OUTOFMEMORY", d |-> [h EXCEPT !.ptr = "NULL"]]
         ELSE IF fail = "buffer" \/ h.f.countermap_size = 0
         THEN [ret |-> "CBF_FREAD", d |-> [h EXCEPT !.ptr = "freed"]]
         ELSE [ret |-> "CBF_SUCCESS",
               d   |-> [h EXCEPT !.f = [file.hdr EXCEPT !.countermap = file.body],
                                 !.ptr = "live"]]

TdbloomImage(f, addr) ==
    [kind |-> "tdbloom", magic |-> "-", hdr |-> [f EXCEPT !.filter = EmptyBuf],
     ptr |-> addr,
     body |-> f.filter, body_bytes |-> f.filter_size, tampered |-> FALSE]

\* the second fwrite is tested for being nonzero, not for being other than 1
tdbloom_save(f, addr, file, fail) ==
    IF fail = "fopen" THEN [ret |-> "TDBF_FOPEN", disk |-> file]
    ELSE IF fail = "header" THEN [ret |-> "TDBF_FWRITE", disk |-> EmptyFile]
    ELSE IF FwriteOne(f.filter_size, fail = "buffer") # 0
         THEN [ret |-> "TDBF_FWRITE", disk |-> TdbloomImage(f, addr)]
         ELSE [ret  |-> "TDBF_SUCCESS",
               disk |-> IF fail = "buffer"
                        THEN [TdbloomImage(f, addr) EXCEPT !.body = EmptyBuf, !.body_bytes = 0]
                        ELSE TdbloomImage(f, addr)]

tdbloom_load(d, file, fail) ==
    IF file.kind = "none" THEN [ret |-> "TDBF_FOPEN", d |-> d]
    ELSE IF file.kind = "empty" THEN [ret |-> "TDBF_FREAD", d |-> d]
    ELSE LET h == [f |-> file.hdr, ptr |-> "file", oob |-> 0] IN
         IF \/ h.f.filter_size # (h.f.size * h.f.bytes) % Word
            \/ (SizeofTdbloom + h.f.filter_size) % Word # st_size(file)
         THEN [ret |-> "TDBF_INVALIDFILE", d |-> h]
         ELSE IF fail = "malloc"
         THEN [ret |-> "TDBF_OUTOFMEMORY", d |-> [h EXCEPT !.ptr = "NULL"]]
         ELSE IF fail = "buffer" \/ h.f.filter_size = 0
         THEN [ret |-> "TDBF_FREAD", d |-> [h EXCEPT !.ptr = "NULL"]]
         ELSE [ret |-> "TDBF_SUCCESS",
               d   |-> [h EXCEPT !.f = [file.hdr EXCEPT !.filter = file.body],
                                 !.ptr = "live"]]

\* tdcbloom_save and tdcbloom_load return TDCBF_SUCCESS and do nothing else
tdcbloom_save(f, file) == [ret |-> "TDCBF_SUCCESS", disk |-> file]
tdcbloom_load(d, file) == [ret |-> "TDCBF_SUCCESS", d |-> d]

\* the buffer size a header declares and the one its slot count implies
Declared(file) ==
    CASE file.kind = "bloom"   -> file.hdr.bitmap_size
      [] file.kind = "cbloom"  -> file.hdr.countermap_size
      [] file.kind = "tdbloom" -> file.hdr.filter_size

Computed(file) ==
    CASE file.kind = "bloom"   -> file.hdr.size \div 8
      [] file.kind = "cbloom"  -> countermap_size(file.hdr.size, file.hdr.csize)
      [] file.kind = "tdbloom" -> file.hdr.size * file.hdr.bytes

SetDeclared(file, v) ==
    CASE file.kind = "bloom"   -> [file EXCEPT !.hdr.bitmap_size = v]
      [] file.kind = "cbloom"  -> [file EXCEPT !.hdr.countermap_size = v]
      [] file.kind = "tdbloom" -> [file EXCEPT !.hdr.filter_size = v]

\* what another program does to the file between a save and a load
TamperKinds == {"magic", "declared", "grow", "truncate", "slots"}

Tampered(file, how) ==
    LET n == Cardinality(DOMAIN file.body) IN
    CASE how = "magic"    -> [file EXCEPT !.magic = "!xbloom!"]
      [] how = "declared" -> SetDeclared(file, Declared(file) + 1)
      [] how = "grow"     ->
             [SetDeclared(file, Declared(file) + 1) EXCEPT
                 !.body = [i \in 0 .. n |-> IF i < n THEN file.body[i] ELSE 0],
                 !.body_bytes = @ + 1]
      [] how = "truncate" ->
             [file EXCEPT !.body = [i \in 0 .. n - 2 |-> file.body[i]],
                          !.body_bytes = @ - 1]
      [] how = "slots"    -> [file EXCEPT !.hdr.size = @ + 8]

Tamper ==
    /\ disk # Idle
    /\ disk.kind \in {"bloom", "cbloom", "tdbloom"}
    /\ ~disk.tampered
    /\ \E how \in TamperKinds :
          /\ how = "magic" => disk.kind = "cbloom"
          /\ how = "truncate" => (disk.body_bytes > 0 /\ DOMAIN disk.body # {})
          /\ disk' = [Tampered(disk, how) EXCEPT !.tampered = TRUE]
    /\ last' = NoCall
    /\ UNCHANGED <<hashes, bloomVars, cbloomVars, clockVars, tdVars, tdcVars,
                   dst, bf2, heap>>

\* a save call: the step that fails is recorded as the call's input
SaveStep(op, fail, r) ==
    /\ disk' = r.disk
    /\ last' = [op |-> op, element |-> fail, ret |-> r.ret]
    /\ UNCHANGED <<hashes, bloomVars, cbloomVars, clockVars, tdVars, tdcVars,
                   dst, bf2, heap>>

\* a load call into a struct declared for it
LoadStep(op, fail, r) ==
    /\ dst' = r.d
    /\ last' = [op |-> op, element |-> fail, ret |-> r.ret]
    /\ UNCHANGED <<hashes, bloomVars, cbloomVars, clockVars, tdVars, tdcVars,
                   disk, bf2, heap>>

BloomSave ==
    /\ bf # Idle /\ disk # Idle
    /\ \E fail \in SaveFailures, addr \in Addresses :
          SaveStep("bloom_save", fail, bloom_save(bf, addr, disk, fail))

BloomLoad ==
    /\ bf # Idle /\ disk # Idle
    /\ \E fail \in LoadFailures, heapbyte \in OobVals :
          LoadStep("bloom_load", fail, bloom_load(FreshDst, disk, fail, heapbyte))

CbloomSave ==
    /\ cbf # Idle /\ disk # Idle
    /\ \E fail \in SaveFailures, addr \in Addresses :
          SaveStep("cbloom_save", fail, cbloom_save(cbf, addr, disk, fail))

CbloomLoad ==
    /\ cbf # Idle /\ disk # Idle
    /\ \E fail \in LoadFailures :
          LoadStep("cbloom_load", fail, cbloom_load(FreshDst, disk, fail))

TdbloomSave ==
    /\ tdbf # Idle /\ disk # Idle
    /\ \E fail \in SaveFailures, addr \in Addresses :
          SaveStep("tdbloom_save", fail, tdbloom_save(tdbf, addr, disk, fail))

TdbloomLoad ==
    /\ tdbf # Idle /\ disk # Idle
    /\ \E fail \in LoadFailures :
          LoadStep("tdbloom_load", fail, tdbloom_load(FreshDst, disk, fail))

TdcbloomSave ==
    /\ tdcbf # Idle /\ disk # Idle
    /\ SaveStep("tdcbloom_save", "none", tdcbloom_save(tdcbf, disk))

TdcbloomLoad ==
    /\ tdcbf # Idle /\ disk # Idle
    /\ LoadStep("tdcbloom_load", "none", tdcbloom_load(FreshDst, disk))

\* the filters that are saved and loaded
PersistParams == {<<1, 20>>, <<2, 10>>, <<5, 20>>}

PersistHashes(hashcount) ==
    {h \in HashTables(hashcount) : \A i \in 0 .. hashcount - 1 : h["b"][i] = 10}

PersistStart ==
    disk = NoFile /\ dst = FreshDst /\ bf2 = Idle /\ heap = Idle /\ last = NoCall

InitPersist ==
    /\ PersistStart
    /\ \/ /\ \E p \in PersistParams : bf = bloom_init(p[1], p[2])
          /\ hashes \in PersistHashes(bf.hashcount)
          /\ bf_oob \in OobVals
          /\ bf_added = {}
          /\ IdleCBloom /\ IdleClock /\ IdleTD /\ IdleTDC
       \/ /\ \E cs \in CInitSizes : cbf = cbloom_init(1, 20, cs)
          /\ hashes \in PersistHashes(cbf.hashcount)
          /\ cbf_adds = [e \in Elements |-> 0]
          /\ cbf_removes = [e \in Elements |-> 0]
          /\ cbf_live = {}
          /\ cbf_valid = [e \in Elements |-> TRUE]
          /\ cbf_sat = FALSE
          /\ IdleBloom /\ IdleClock /\ IdleTD /\ IdleTDC
       \/ /\ now = 0 /\ ticks = 0
          /\ \E p \in TDParams, t \in TDTimeouts :
                 tdbf = tdbloom_init(p[1], p[2], t, now)
          /\ hashes \in PersistHashes(tdbf.hashcount)
          /\ td_added = [e \in Elements |-> NoTime]
          /\ IdleBloom /\ IdleCBloom /\ IdleTDC
       \/ /\ now = 0 /\ ticks = 0
          /\ \E p \in TDCParams, t \in TDCTimeouts,
                cs \in TDCCounterSizes, ts \in TDCTimerSizes :
                 tdcbf = tdcbloom_init(p[1], p[2], t, cs, ts, now)
          /\ hashes \in PersistHashes(tdcbf.hashcount)
          /\ tdc_adds = [e \in Elements |-> 0]
          /\ tdc_removes = [e \in Elements |-> 0]
          /\ tdc_valid = [e \in Elements |-> TRUE]
          /\ tdc_added = [e \in Elements |-> NoTime]
          /\ tdc_swept = FALSE
          /\ IdleBloom /\ IdleCBloom /\ IdleTD

NextPersist ==
    \/ \E e \in Elements : bloom_add(e)
    \/ \E e \in Elements : cbloom_add(e)
    \/ Tick
    \/ \E e \in Elements : tdbloom_add(e)
    \/ \E e \in Elements : tdcbloom_add(e)
    \/ BloomSave \/ BloomLoad
    \/ CbloomSave \/ CbloomLoad
    \/ TdbloomSave \/ TdbloomLoad
    \/ TdcbloomSave \/ TdcbloomLoad
    \/ Tamper

SpecPersist == InitPersist /\ [][NextPersist]_vars

-----------------------------------------------------------------------------
(* The allocator: heap.live counts the buffers allocated and not freed,    *)
(* heap.frees the buffers freed, and heap.bad records a free() of a        *)
(* pointer that is not a live buffer.                                      *)

\* bound on the buffers allocated at one time
MaxLive == 4

\* no buffer allocated yet
EmptyHeap == [live |-> 0, frees |-> 0, bad |-> FALSE]

\* a successful calloc() or malloc()
Calloc(hp) == [hp EXCEPT !.live = @ + 1]

\* free() of a non-null pointer
Free(hp, ptr) ==
    IF ptr = "live" THEN [hp EXCEPT !.live = @ - 1, !.frees = @ + 1]
    ELSE [hp EXCEPT !.bad = TRUE]

\* a destroy that frees the buffer and leaves the pointer as it is
DestroyKeepsPointer(d, hp) ==
    IF d.ptr # "NULL"
    THEN [d |-> [d EXCEPT !.ptr = "freed"], heap |-> Free(hp, d.ptr)]
    ELSE [d |-> d, heap |-> hp]

\* bloom_destroy, cbloom_destroy, tdbloom_destroy and tdcbloom_destroy have
\* the same body: a non-null buffer pointer is freed and set to NULL
destroy(d, hp) ==
    IF d.ptr # "NULL"
    THEN [d |-> [d EXCEPT !.ptr = "NULL"], heap |-> Free(hp, d.ptr)]
    ELSE [d |-> d, heap |-> hp]

-----------------------------------------------------------------------------
(* Construction and teardown: the init and destroy calls of the four       *)
(* variants on a declared struct, with any sizing inputs.                  *)

Kinds == {"bloom", "cbloom", "tdbloom", "tdcbloom"}

\* expected, and accuracy in percent: 0, 100 and the values outside [0, 100]
\* are the ones log() maps to -inf, 0, NaN or a positive number
LifeExpected   == {0, 1, 2, 5}
LifeAccuracies == {0 - 10, 0, 10, 20, 50, 70, 100, 150}
InUnitInterval(acc) == 0 < acc /\ acc < 100

\* the values an undefined conversion to an unsigned integer is given: 0
\* and a size that no calloc() can serve
TooLarge == 3000
UbSizes  == {0, TooLarge}

\* the other arguments of the init calls
LifeTimeout == 2
LifeCounter == "COUNTER_8BIT"
LifeTimer   == "TIMER_8BIT"

\* ideal_size() for any float: log(1.0) is 0 and gives size 0; log() of 0,
\* of a negative number or of a number above 1 makes the double infinite,
\* NaN or negative, whose conversion to an unsigned integer is undefined:
\* ub is the value the build produces
ideal_size_any(expected, acc, ub) ==
    IF InUnitInterval(acc) THEN ideal_size(expected, acc)
    ELSE IF acc = 100 THEN 0
    ELSE ub

\* the fields the four init calls compute from expected and accuracy;
\* quotient is the value of size / expected
Sizing(kind, expected, acc, ub, quotient) ==
    [size      |-> ideal_size_any(expected, acc, ub),
     hashcount |-> IF kind = "cbloom" THEN TimesLog2Rounded(quotient)
                   ELSE TimesLog2(quotient),
     expected  |-> expected,
     accuracy  |-> acc]

\* the struct a returning init call has written; zero is the value the
\* build gives a division by zero that does not trap
Constructed(kind, expected, acc, ub) ==
    IF expected = 0 THEN Sizing(kind, expected, acc, ub, 0)
    ELSE IF ~InUnitInterval(acc)
    THEN Sizing(kind, expected, acc, ub,
                ideal_size_any(expected, acc, ub) \div expected)
    ELSE CASE kind = "bloom"    -> bloom_init(expected, acc)
           [] kind = "cbloom"   -> cbloom_init(expected, acc, LifeCounter)
           [] kind = "tdbloom"  -> tdbloom_init(expected, acc, LifeTimeout, now)
           [] kind = "tdcbloom" ->
                  tdcbloom_init(expected, acc, LifeTimeout, LifeCounter,
                                LifeTimer, now)

OutOfMemory(kind) ==
    CASE kind = "bloom"    -> "BF_OUTOFMEMORY"
      [] kind = "cbloom"   -> "CBF_OUTOFMEMORY"
      [] kind = "tdbloom"  -> "TDBF_OUTOFMEMORY"
      [] kind = "tdcbloom" -> "TDCBF_OUTOFMEMORY"

Success(kind) ==
    CASE kind = "bloom"    -> "BF_SUCCESS"
      [] kind = "cbloom"   -> "CBF_SUCCESS"
      [] kind = "tdbloom"  -> "TDBF_SUCCESS"
      [] kind = "tdcbloom" -> "TDCBF_SUCCESS"

\* an init call on the declared struct d. alloc is the answer of calloc()
\* (any request may be refused, a request of 0 bytes may be answered by
\* NULL or by a pointer, a request of the size an undefined conversion
\* produced is refused), ub the result of an undefined conversion, trap
\* whether the integer division by zero ends the process
init(kind, d, expected, acc, alloc, ub, trap, hp) ==
    IF kind = "tdcbloom" /\ expected = 0
    THEN [ret |-> "TDCBF_INVALIDEXPECTED", d |-> d, heap |-> hp,
          divzero |-> FALSE]
    ELSE IF kind = "tdcbloom" /\ ~InUnitInterval(acc)
    THEN [ret |-> "TDCBF_INVALIDACCURACY", d |-> d, heap |-> hp,
          divzero |-> FALSE]
    ELSE IF expected = 0 /\ trap
    THEN [ret |-> "SIGFPE", d |-> d, heap |-> hp, divzero |-> TRUE]
    ELSE LET f  == Constructed(kind, expected, acc, ub)
             ok == alloc /\ f.size # TooLarge
         IN  [ret     |-> IF ok THEN Success(kind) ELSE OutOfMemory(kind),
              d       |-> [d EXCEPT !.f = f,
                                    !.ptr = IF ok THEN "live" ELSE "NULL"],
              heap    |-> IF ok THEN Calloc(hp) ELSE hp,
              divzero |-> expected = 0]

InitCall ==
    /\ dst # Idle /\ heap # Idle
    /\ dst.ptr = "uninit"
    /\ \E expected \in LifeExpected, acc \in LifeAccuracies,
          alloc \in BOOLEAN, ub \in UbSizes, trap \in BOOLEAN :
          LET r == init(dst.kind, dst, expected, acc, alloc, ub, trap, heap) IN
          /\ dst' = r.d
          /\ heap' = r.heap
          /\ last' = [op      |-> "init",
                      element |-> <<expected, acc>>,
                      ret     |-> r.ret,
                      divzero |-> r.divzero]
    /\ UNCHANGED <<hashes, bloomVars, cbloomVars, clockVars, tdVars, tdcVars,
                   disk, bf2>>

\* a destroy call on a struct an init call has written; the call's record
\* keeps the buffer pointer the call found
DestroyCall ==
    /\ dst # Idle /\ heap # Idle
    /\ dst.ptr # "uninit"
    /\ LET r == destroy(dst, heap) IN
          /\ dst' = r.d
          /\ heap' = r.heap
    /\ last' = [op |-> "destroy", element |-> dst.ptr, ret |-> 0]
    /\ UNCHANGED <<hashes, bloomVars, cbloomVars, clockVars, tdVars, tdcVars,
                   disk, bf2>>

InitLife ==
    /\ \E kind \in Kinds :
          dst = [f |-> Idle, ptr |-> "uninit", oob |-> 0, kind |-> kind]
    /\ heap = EmptyHeap
    /\ hashes = [e \in Elements |-> EmptyBuf]
    /\ last = NoCall
    /\ disk = Idle /\ bf2 = Idle
    /\ IdleBloom /\ IdleCBloom /\ IdleClock /\ IdleTD /\ IdleTDC

NextLife ==
    \/ InitCall
    \/ DestroyCall

SpecLife == InitLife /\ [][NextLife]_vars

-----------------------------------------------------------------------------
(* Set algebra of the plain filter: bloom_merge and bloom_intersect of bf  *)
(* and bf2 into the struct dst.                                            *)

\* x | y and x & y on uint8_t, bits 0 .. n-1
RECURSIVE ByteOr(_, _, _)
ByteOr(x, y, n) ==
    IF n = 0 THEN 0
    ELSE ByteOr(x, y, n - 1)
            + (IF TestBit(x, n - 1) \/ TestBit(y, n - 1) THEN 2^(n - 1) ELSE 0)

RECURSIVE ByteAnd(_, _, _)
ByteAnd(x, y, n) ==
    IF n = 0 THEN 0
    ELSE ByteAnd(x, y, n - 1)
            + (IF TestBit(x, n - 1) /\ TestBit(y, n - 1) THEN 2^(n - 1) ELSE 0)

\* a test of the operands that leaves the accuracy out
SameSizeAndHashcount(bf1, other) ==
    bf1.size = other.size /\ bf1.hashcount = other.hashcount

\* the operands pass the test at the head of bloom_merge and bloom_intersect
Compatible(bf1, other) ==
    ~ (\/ bf1.size # other.size
       \/ bf1.hashcount # other.hashcount
       \/ bf1.accuracy # other.accuracy)

\* the steps at which bloom_merge and bloom_intersect can fail
SetOpFailures == {"none", "calloc"}

\* the body shared by bloom_merge and bloom_intersect; bytes is the bitmap
\* the loop computes, heapbyte the byte behind the new allocation
SetOpResult(d, bf1, other, bytes, fail, heapbyte, hp) ==
    IF ~Compatible(bf1, other)
    THEN [ret |-> "BF_INVALIDFILE", d |-> d, heap |-> hp]
    ELSE LET h == [size        |-> bf1.size,
                   hashcount   |-> bf1.hashcount,
                   accuracy    |-> bf1.accuracy,
                   bitmap_size |-> bf1.bitmap_size,
                   expected    |-> bf1.expected,
                   insertions  |-> bf1.insertions,
                   bitmap      |-> EmptyBuf]
         IN  IF fail = "calloc"
             THEN [ret  |-> "BF_OUTOFMEMORY",
                   d    |-> [f |-> h, ptr |-> "NULL", oob |-> d.oob],
                   heap |-> hp]
             ELSE [ret  |-> "BF_SUCCESS",
                   d    |-> [f   |-> [h EXCEPT
                                        !.bitmap = bytes,
                                        !.insertions =
                                            (@ + other.insertions) % Word],
                             ptr |-> "live", oob |-> heapbyte],
                   heap |-> Calloc(hp)]

bloom_merge(d, bf1, other, fail, heapbyte, hp) ==
    SetOpResult(d, bf1, other,
                [i \in 0 .. bf1.bitmap_size - 1 |->
                    ByteOr(bf1.bitmap[i], other.bitmap[i], 8)],
                fail, heapbyte, hp)

bloom_intersect(d, bf1, other, fail, heapbyte, hp) ==
    SetOpResult(d, bf1, other,
                [i \in 0 .. bf1.bitmap_size - 1 |->
                    ByteAnd(bf1.bitmap[i], other.bitmap[i], 8)],
                fail, heapbyte, hp)

SetOpStep(op, fail, r) ==
    /\ dst' = r.d
    /\ heap' = r.heap
    /\ last' = [op |-> op, element |-> fail, ret |-> r.ret]
    /\ UNCHANGED <<hashes, bloomVars, cbloomVars, clockVars, tdVars, tdcVars,
                   disk, bf2>>

BloomMerge ==
    /\ bf # Idle /\ bf2 # Idle
    /\ heap.live < MaxLive
    /\ \E fail \in SetOpFailures, heapbyte \in OobVals :
          SetOpStep("bloom_merge", fail,
                    bloom_merge(dst, bf, bf2.f, fail, heapbyte, heap))

BloomIntersect ==
    /\ bf # Idle /\ bf2 # Idle
    /\ heap.live < MaxLive
    /\ \E fail \in SetOpFailures, heapbyte \in OobVals :
          SetOpStep("bloom_intersect", fail,
                    bloom_intersect(dst, bf, bf2.f, fail, heapbyte, heap))

\* bit_count_table[byte]: the number of bits set in a uint8_t
RECURSIVE bit_count_table(_, _)
bit_count_table(byte, n) ==
    IF n = 0 THEN 0
    ELSE bit_count_table(byte, n - 1) + (IF TestBit(byte, n - 1) THEN 1 ELSE 0)

\* the sum of bit_count_table over the first i bytes of a bitmap
RECURSIVE CountBits(_, _)
CountBits(bytes, i) ==
    IF i = 0 THEN 0
    ELSE CountBits(bytes, i - 1) + bit_count_table(bytes[i - 1], 8)

\* a float as the quotient num / den; den = 0 stands for the NaN of 0 / 0
EstimateError == [num |-> 0 - 1, den |-> 1]

\* bloom_estimate_intersection: only size and hashcount are compared; the
\* count of common bits is divided by the number of bits of the bitmap
bloom_estimate_intersection(bf1, other) ==
    IF bf1.size # other.size \/ bf1.hashcount # other.hashcount
    THEN EstimateError
    ELSE LET intersection_count ==
                 CountBits([i \in 0 .. bf1.bitmap_size - 1 |->
                               ByteAnd(bf1.bitmap[i], other.bitmap[i], 8)],
                           bf1.bitmap_size)
             bits_total == bf1.bitmap_size * 8
         IN  [num |-> intersection_count * 100, den |-> bits_total]

BloomEstimate ==
    /\ bf # Idle /\ bf2 # Idle
    /\ last' = [op      |-> "bloom_estimate_intersection",
                element |-> "none",
                ret     |-> bloom_estimate_intersection(bf, bf2.f)]
    /\ UNCHANGED <<hashes, bloomVars, cbloomVars, clockVars, tdVars, tdcVars,
                   ioVars>>

\* bloom_add on the second operand
Bloom2Add(element) ==
    LET m == AddBits(bf2.f, <<bf2.f.bitmap, bf2.oob>>, element, bf2.f.hashcount) IN
    /\ bf2 # Idle
    /\ bf2.f.insertions < MaxInsertions
    /\ bf2' = [f   |-> [bf2.f EXCEPT
                           !.bitmap = m[1],
                           !.insertions =
                               IF bloom_lookup(bf2.f, bf2.oob, element)
                               THEN @ ELSE @ + 1],
               oob |-> m[2]]
    /\ last' = NoCall
    /\ UNCHANGED <<hashes, bloomVars, cbloomVars, clockVars, tdVars, tdcVars,
                   disk, dst, heap>>

\* the operands: two pairs of equal size and hashcount (one pair of which
\* differs in accuracy) and hash values that reach the last partial byte;
\* the result struct is either only declared or set up by bloom_init
MergeParams   == {<<5, 10>>, <<7, 20>>, <<5, 20>>}
MergeHashVals == {0, 10, 20}

MergeHashes ==
    {h \in [Elements -> [0 .. 1 -> MergeHashVals]] :
        h["a"][0] = 0 /\ h["b"][0] # 0 /\ h["b"][1] = 20}

InitMerge ==
    /\ \E p \in MergeParams : bf = bloom_init(p[1], p[2])
    /\ \E p \in MergeParams, o \in OobVals :
          bf2 = [f |-> bloom_init(p[1], p[2]), oob |-> o]
    /\ hashes \in MergeHashes
    /\ bf_oob \in OobVals
    /\ bf_added = {}
    /\ disk = Idle
    /\ dst \in {FreshDst, [f |-> bf, ptr |-> "live", oob |-> 0]}
    /\ heap = [EmptyHeap EXCEPT
                   !.live = 2 + (IF dst.ptr = "live" THEN 1 ELSE 0)]
    /\ last = NoCall
    /\ IdleCBloom /\ IdleClock /\ IdleTD /\ IdleTDC

NextMerge ==
    \/ \E e \in Elements : bloom_add(e)
    \/ \E e \in Elements : Bloom2Add(e)
    \/ BloomMerge
    \/ BloomIntersect
    \/ BloomEstimate

SpecMerge == InitMerge /\ [][NextMerge]_vars

-----------------------------------------------------------------------------
(* Clearing: the clear call of each variant after adds, and the saturation *)
(* counts that read the buffer back.                                       *)

bloom_saturation_count(f) == CountBits(f.bitmap, f.bitmap_size)

cbloom_saturation_count(f) ==
    Cardinality({i \in 0 .. f.size - 1 : get_counter(f, i) # 0})

\* cbloom_clear: memset over countermap_size bytes
cbloom_clear ==
    /\ cbf # Idle
    /\ cbf' = [cbf EXCEPT !.countermap = [i \in DOMAIN cbf.countermap |-> 0]]
    /\ cbf_live' = {}
    /\ last' = [op |-> "cbloom_clear", element |-> "-", ret |-> 0]
    /\ UNCHANGED <<cbf_adds, cbf_removes, cbf_valid, cbf_sat, notCBloom>>

InitClear == InitBloom \/ InitCBloom \/ InitTD \/ InitTDC

NextClear ==
    \/ \E e \in Elements : bloom_add(e)
    \/ bloom_clear
    \/ \E e \in Elements : cbloom_add(e)
    \/ cbloom_clear
    \/ Tick
    \/ \E e \in Elements : tdbloom_add(e)
    \/ tdbloom_clear
    \/ \E e \in Elements : tdcbloom_add(e)
    \/ tdcbloom_clear

SpecClear == InitClear /\ [][NextClear]_vars

-----------------------------------------------------------------------------
(* C1: plain filter, no false negatives: every element passed to bloom_add, *)
(* bloom_lookup_or_add or bloom_add_if_not_present since the last           *)
(* bloom_clear is reported present by bloom_lookup.                         *)
C1_NoFalseNegatives ==
    bf # Idle => \A e \in bf_added : bloom_lookup(bf, bf_oob, e)


(* C2: counting filter, no false negatives: every element that was added    *)
(* and not removed since is reported present by cbloom_lookup, whatever     *)
(* other elements were added or removed (also ones that were never added).  *)
C2_NoFalseNegatives ==
    cbf # Idle => \A e \in cbf_live : cbloom_lookup(cbf, e)


(* C2, amended: the counting filter has no false negatives as long as    *)
(* every cbloom_remove(x) so far was called while x had more adds than      *)
(* removes and no increment has met a counter at its maximum.               *)
C2_NoFalseNegativesValidRemoves ==
    (cbf # Idle /\ (\A x \in Elements : cbf_valid[x]) /\ ~cbf_sat)
        => \A e \in cbf_live : cbloom_lookup(cbf, e)

\* the slots of an element in the counting filter
CSlots(f, element) == {CPositions(f, element)[i] : i \in 0 .. f.hashcount - 1}

\* "a" is live and shares a slot with "b", which was added and removed
C2_Witness ==
    /\ cbf # Idle
    /\ cbf.hashcount > 0
    /\ \A x \in Elements : cbf_valid[x]
    /\ ~cbf_sat
    /\ cbf_live = {"a"}
    /\ cbf_removes["b"] > 0
    /\ CSlots(cbf, "a") \cap CSlots(cbf, "b") # {}
    /\ cbloom_lookup(cbf, "a")

(* C3: time-decaying filter, no false negatives inside the window: an       *)
(* element whose last tdbloom_add is at most timeout seconds old, with no   *)
(* tdbloom_clear since, is reported present by tdbloom_lookup at every      *)
(* clock value, also when the time since start_time exceeds max_time.       *)
C3_NoFalseNegativesInWindow ==
    tdbf # Idle =>
        \A e \in Elements :
            (td_added[e] # NoTime /\ now - td_added[e] <= tdbf.timeout)
                => tdbloom_lookup(tdbf, now, e)

\* no add has written a slot of the element during the last timeout seconds
TDQuiet(e) ==
    \A x \in Elements :
        TDSlots(tdbf, x) \cap TDSlots(tdbf, e) # {}
            => (td_added[x] = NoTime \/ now > td_added[x] + tdbf.timeout)

TDCQuiet(e) ==
    \A x \in Elements :
        TDCSlots(tdcbf, x) \cap TDCSlots(tdcbf, e) # {}
            => (tdc_added[x] = NoTime \/ now > tdc_added[x] + tdcbf.timeout)

(* C4: expiry is permanent in both time-decaying variants: an element none  *)
(* of whose slots was written by an add during the last timeout seconds is  *)
(* reported absent by tdbloom_lookup and by tdcbloom_lookup.                *)
C4_ExpiryPermanent ==
    /\ tdbf # Idle =>
           \A e \in Elements : TDQuiet(e) => ~tdbloom_lookup(tdbf, now, e)
    /\ tdcbf # Idle =>
           \A e \in Elements : TDCQuiet(e) => ~tdcbloom_lookup(tdcbf, now, e)

(* C5: tdcbloom_clear_expired keeps every element that tdcbloom_lookup      *)
(* reports present, resets only entries that are expired under the rule of  *)
(* tdcbloom_lookup, and returns the number of entries it reset.             *)
C5_SweepAgreesWithLookup ==
    [][last'.op = "tdcbloom_clear_expired" =>
         /\ \A e \in Elements :
                tdcbloom_lookup(tdcbf, now, e) => tdcbloom_lookup(tdcbf', now', e)
         /\ \A i \in 0 .. tdcbf.size - 1 :
                tdcbf'.entrymap[i] # tdcbf.entrymap[i]
                    => LookupAge(tdcbf, now, tdcbf.entrymap[i].timestamp)
                           > tdcbf.timeout
         /\ last'.ret = Cardinality({i \in 0 .. tdcbf.size - 1 :
                                        tdcbf'.entrymap[i] # tdcbf.entrymap[i]})
      ]_vars

(* C6: counters never wrap, for every counter width of cbloom and of       *)
(* tdcbloom: an increment of a counter at its maximum leaves it at the      *)
(* maximum and a decrement of a counter at 0 leaves it at 0.                *)
C6_CountersNeverWrap ==
    [][\A p \in 0 .. 2 :
          /\ (last'.op = "inc_counter" /\ last'.ret = p
                  /\ get_counter(cbf, p) = ClampCounter(cbf.csize, UINT64_MAX))
                => get_counter(cbf', p) = ClampCounter(cbf.csize, UINT64_MAX)
          /\ (last'.op = "dec_counter" /\ last'.ret = p
                  /\ get_counter(cbf, p) = 0)
                => get_counter(cbf', p) = 0
          /\ (last'.op = "increment_counter" /\ last'.ret = p
                  /\ tdcbf.entrymap[p].counter = CounterMax(tdcbf.counter_size))
                => tdcbf'.entrymap[p].counter = CounterMax(tdcbf.counter_size)
          /\ (last'.op = "decrement_counter" /\ last'.ret = p
                  /\ tdcbf.entrymap[p].counter = 0)
                => tdcbf'.entrymap[p].counter = 0
      ]_vars

\* how many of the hash positions of the element fall on the slot
Multiplicity(f, element, slot) ==
    Cardinality({i \in 0 .. f.hashcount - 1 : CPositions(f, element)[i] = slot})

(* C7: cbloom_remove is all-or-nothing: called while a slot of the element  *)
(* holds 0 it changes no counter; otherwise every counter goes down by one  *)
(* for each hash position of the element on it, stopping at 0, and the      *)
(* counters that are no hash position of the element keep their value.      *)
C7_RemoveAllOrNothing ==
    [][\A e \in Elements :
          cbf_removes'[e] # cbf_removes[e] =>
              IF \E p \in CSlots(cbf, e) : get_counter(cbf, p) = 0
              THEN cbf' = cbf
              ELSE \A p \in 0 .. cbf.size - 1 :
                       get_counter(cbf', p) =
                           Max(0, get_counter(cbf, p) - Multiplicity(cbf, e, p))
      ]_vars

\* a remove was refused for a zero slot while another slot of the element,
\* shared with the other element, holds a count
C7_Witness ==
    /\ cbf # Idle
    /\ cbf_removes["a"] > 0
    /\ \E p \in CSlots(cbf, "a") : get_counter(cbf, p) = 0
    /\ \E p \in CSlots(cbf, "a") \cap CSlots(cbf, "b") : get_counter(cbf, p) > 0
    /\ cbf_adds["a"] = 0

(* C8: tdcbloom_remove is all-or-nothing: called while an entry of the      *)
(* element holds a zero counter it changes no counter of the filter.        *)
C8_TdcRemoveAllOrNothing ==
    [][\A e \in Elements :
          (/\ tdc_removes'[e] # tdc_removes[e]
           /\ \E p \in TDCSlots(tdcbf, e) : tdcbf.entrymap[p].counter = 0)
              => \A p \in 0 .. tdcbf.size - 1 :
                     tdcbf'.entrymap[p].counter = tdcbf.entrymap[p].counter
      ]_vars

\* the smallest counter over the entries of the element
RECURSIVE MinCounter(_, _, _)
MinCounter(f, element, i) ==
    IF i = 0 THEN UINT64_MAX
    ELSE Min(f.entrymap[TDCPosition(f, element, i - 1)].counter,
             MinCounter(f, element, i - 1))

(* C10: tdcbloom_count is 0 when an entry of the element has a zero counter *)
(* or an expired timestamp and the smallest counter of its entries          *)
(* otherwise, so it is positive exactly when tdcbloom_lookup is true.       *)
C10_CountAgreesWithLookup ==
    tdcbf # Idle =>
        \A e \in Elements :
            /\ tdcbloom_count(tdcbf, now, e) =
                   IF tdcbloom_lookup(tdcbf, now, e)
                   THEN MinCounter(tdcbf, e, tdcbf.hashcount) ELSE 0
            /\ (tdcbloom_count(tdcbf, now, e) > 0) = tdcbloom_lookup(tdcbf, now, e)

\* the maximum of a counter of the counting filter
CMax(f) == ClampCounter(f.csize, UINT64_MAX)

\* no other element that was added to the filter shares a slot with e
CAlone(e) ==
    \A x \in Elements \ {e} :
        cbf_adds[x] > 0 => CSlots(cbf, x) \cap CSlots(cbf, e) = {}

TDCAlone(e) ==
    \A x \in Elements \ {e} :
        tdc_adds[x] > 0 => TDCSlots(tdcbf, x) \cap TDCSlots(tdcbf, e) = {}

\* no other element passed to add or to remove shares a slot with e
CUntouched(e) ==
    \A x \in Elements \ {e} :
        (cbf_adds[x] > 0 \/ cbf_removes[x] > 0)
            => CSlots(cbf, x) \cap CSlots(cbf, e) = {}

TDCUntouched(e) ==
    \A x \in Elements \ {e} :
        (tdc_adds[x] > 0 \/ tdc_removes[x] > 0)
            => TDCSlots(tdcbf, x) \cap TDCSlots(tdcbf, e) = {}

\* the element was added and its last add is at most timeout seconds old
TDCInWindow(e) ==
    tdc_added[e] # NoTime /\ now - tdc_added[e] <= tdcbf.timeout

C11_LookupOrAddReportsPrior ==
    [][/\ last'.op = "bloom_lookup_or_add" =>
            /\ (last'.ret = 1) = bloom_lookup(bf, bf_oob, last'.element)
            /\ bloom_lookup(bf', bf_oob', last'.element)
       /\ last'.op = "cbloom_lookup_or_add" =>
            /\ (last'.ret = 1) = cbloom_lookup(cbf, last'.element)
            /\ cbloom_lookup(cbf', last'.element)
      ]_vars

(* C12: lookup_or_add only adds when the element is absent: a               *)
(* bloom_lookup_or_add or cbloom_lookup_or_add that returns true leaves the *)
(* bitmap, respectively the countermap, as it was.                          *)
C12_LookupOrAddFrame ==
    [][/\ (last'.op = "bloom_lookup_or_add" /\ last'.ret = 1) =>
            (bf'.bitmap = bf.bitmap /\ bf_oob' = bf_oob)
       /\ (last'.op = "cbloom_lookup_or_add" /\ last'.ret = 1) =>
            cbf'.countermap = cbf.countermap
      ]_vars

(* C13: round trip of the plain and of the counting filter: a save that    *)
(* meets no I/O failure returns success and leaves the image of the        *)
(* filter, and a load of that image that meets no failure returns success  *)
(* and yields a filter with the same metadata and the same buffer, on      *)
(* which every lookup answers as on the original.                          *)
C13_RoundTrip ==
    [][/\ (last'.op = "bloom_save" /\ last'.element = "none") =>
            (last'.ret = "BF_SUCCESS" /\ (\E a \in Addresses : disk' = BloomImage(bf, a)))
       /\ (last'.op = "bloom_load" /\ last'.element = "none"
               /\ \E a \in Addresses : disk = BloomImage(bf, a)) =>
            /\ last'.ret = "BF_SUCCESS"
            /\ dst'.f = bf
            /\ \A e \in Elements :
                   bloom_lookup(dst'.f, dst'.oob, e) = bloom_lookup(bf, bf_oob, e)
       /\ (last'.op = "cbloom_save" /\ last'.element = "none") =>
            (last'.ret = "CBF_SUCCESS" /\ disk' = CbloomImage(cbf))
       /\ (last'.op = "cbloom_load" /\ last'.element = "none"
               /\ disk = CbloomImage(cbf)) =>
            /\ last'.ret = "CBF_SUCCESS"
            /\ dst'.f = cbf
            /\ \A e \in Elements : cbloom_lookup(dst'.f, e) = cbloom_lookup(cbf, e)
      ]_vars

(* C14: round trip of the time-decaying variants: tdbloom_save and         *)
(* tdcbloom_save return success exactly when the file holds the header and *)
(* the whole buffer of the filter, and the load of such a file that meets  *)
(* no failure returns success and yields the same metadata and buffer.     *)
C14_TimeDecayingRoundTrip ==
    [][/\ last'.op = "tdbloom_save" =>
            ((last'.ret = "TDBF_SUCCESS") = (\E a \in Addresses : disk' = TdbloomImage(tdbf, a)))
       /\ (last'.op = "tdbloom_load" /\ last'.element = "none"
               /\ \E a \in Addresses : disk = TdbloomImage(tdbf, a)) =>
            (last'.ret = "TDBF_SUCCESS" /\ dst'.f = tdbf)
       /\ last'.op = "tdcbloom_save" =>
            ((last'.ret = "TDCBF_SUCCESS") = (disk'.kind = "tdcbloom"))
       /\ (last'.op = "tdcbloom_load" /\ last'.ret = "TDCBF_SUCCESS") =>
            dst'.f = tdcbf
      ]_vars

LoadCalls == {"bloom_load", "cbloom_load", "tdbloom_load"}

InvalidFile(op) ==
    CASE op = "bloom_load"   -> "BF_INVALIDFILE"
      [] op = "cbloom_load"  -> "CBF_INVALIDFILE"
      [] op = "tdbloom_load" -> "TDBF_INVALIDFILE"

LoadSuccess(op) ==
    CASE op = "bloom_load"   -> "BF_SUCCESS"
      [] op = "cbloom_load"  -> "CBF_SUCCESS"
      [] op = "tdbloom_load" -> "TDBF_SUCCESS"

(* C15: load validates sizes before allocating: bloom_load, cbloom_load    *)
(* and tdbloom_load return the invalid-file error and allocate nothing     *)
(* when the declared buffer size differs from the one the slot count and   *)
(* slot width imply, or header size plus declared size is not the file's   *)
(* length.                                                                 *)
C15_LoadValidatesSizes ==
    [][(/\ last'.op \in LoadCalls
        /\ disk.kind \notin {"none", "empty"}
        /\ \/ Declared(disk) # Computed(disk)
           \/ HeaderSize(disk.kind) + Declared(disk) # st_size(disk))
         => /\ last'.ret = InvalidFile(last'.op)
            /\ dst'.ptr \notin {"live", "freed", "NULL"}
      ]_vars

(* C16: load validates the magic bytes: cbloom_load of a file whose magic  *)
(* is not the 8 bytes cbloom_save writes returns the invalid-file error    *)
(* and produces no filter.                                                 *)
C16_LoadValidatesMagic ==
    [][(/\ last'.op = "cbloom_load"
        /\ disk.kind = "cbloom"
        /\ disk.magic # CbloomMagic)
         => /\ last'.ret = "CBF_INVALIDFILE"
            /\ dst'.ptr # "live"
      ]_vars

(* C17: a failed load leaves a destroy-safe filter: after bloom_load,      *)
(* cbloom_load or tdbloom_load returns a code other than success, the      *)
(* buffer pointer of the filter is neither a freed buffer nor a value read *)
(* from the file, and no buffer of the load is still allocated.            *)
C17_FailedLoadDestroySafe ==
    [][(last'.op \in LoadCalls /\ last'.ret # LoadSuccess(last'.op))
         => dst'.ptr \notin {"freed", "file", "live"}
      ]_vars

SetOps == {"bloom_merge", "bloom_intersect"}

(* C18: merge is a union: bloom_merge of two compatible filters whose      *)
(* calloc succeeds returns success; every bit of every byte of the result  *)
(* bitmap is the OR of the operands' bits; an element that bloom_lookup    *)
(* reports in one of the operands is reported in the result; and the       *)
(* operands are unchanged.                                                 *)
C18_MergeIsUnion ==
    [][(last'.op = "bloom_merge" /\ last'.element = "none"
            /\ Compatible(bf, bf2.f)) =>
         /\ last'.ret = "BF_SUCCESS"
         /\ \A i \in 0 .. bf.bitmap_size - 1 : \A bit \in 0 .. 7 :
                TestBit(dst'.f.bitmap[i], bit) =
                    (TestBit(bf.bitmap[i], bit) \/ TestBit(bf2.f.bitmap[i], bit))
         /\ \A e \in Elements :
                (bloom_lookup(bf, bf_oob, e) \/ bloom_lookup(bf2.f, bf2.oob, e))
                    => bloom_lookup(dst'.f, dst'.oob, e)
         /\ bf' = bf /\ bf_oob' = bf_oob /\ bf2' = bf2
      ]_vars

(* C19: intersect keeps common elements: bloom_intersect of two compatible *)
(* filters whose calloc succeeds returns success; every bit of every byte  *)
(* of the result bitmap is the AND of the operands' bits, so a bit set in  *)
(* one operand only is clear; and an element that bloom_lookup reports in  *)
(* both operands is reported in the result.                                *)
C19_IntersectKeepsCommon ==
    [][(last'.op = "bloom_intersect" /\ last'.element = "none"
            /\ Compatible(bf, bf2.f)) =>
         /\ last'.ret = "BF_SUCCESS"
         /\ \A i \in 0 .. bf.bitmap_size - 1 : \A bit \in 0 .. 7 :
                TestBit(dst'.f.bitmap[i], bit) =
                    (TestBit(bf.bitmap[i], bit) /\ TestBit(bf2.f.bitmap[i], bit))
         /\ \A e \in Elements :
                (bloom_lookup(bf, bf_oob, e) /\ bloom_lookup(bf2.f, bf2.oob, e))
                    => bloom_lookup(dst'.f, dst'.oob, e)
      ]_vars

(* C20: merge/intersect precondition: when the operands differ in size,    *)
(* hashcount or accuracy, bloom_merge and bloom_intersect return an error  *)
(* code and leave the result struct as it was: no field written, no buffer *)
(* allocated.                                                              *)
C20_SetOpPrecondition ==
    [][(/\ last'.op \in SetOps
        /\ \/ bf.size # bf2.f.size
           \/ bf.hashcount # bf2.f.hashcount
           \/ bf.accuracy # bf2.f.accuracy)
         => (last'.ret # "BF_SUCCESS" /\ dst' = dst /\ heap' = heap)
      ]_vars

\* a merge or intersect of operands that differ in accuracy only was
\* refused and the result struct, set up by bloom_init, is still in place
C20_Witness ==
    /\ bf # Idle /\ bf2 # Idle
    /\ last.op \in SetOps
    /\ last.ret = "BF_INVALIDFILE"
    /\ bf.size = bf2.f.size
    /\ bf.hashcount = bf2.f.hashcount
    /\ bf.accuracy # bf2.f.accuracy
    /\ bf.insertions > 0
    /\ dst.ptr = "live"
    /\ dst.f.insertions = 0

\* the bits set in both bitmaps, and the bits set in one of them
CommonBits(bf1, other) ==
    CountBits([i \in 0 .. bf1.bitmap_size - 1 |->
                  ByteAnd(bf1.bitmap[i], other.bitmap[i], 8)], bf1.bitmap_size)

UnionBits(bf1, other) ==
    CountBits([i \in 0 .. bf1.bitmap_size - 1 |->
                  ByteOr(bf1.bitmap[i], other.bitmap[i], 8)], bf1.bitmap_size)

(* C21: similarity estimate: for compatible filters the value returned by  *)
(* bloom_estimate_intersection is popcount(a AND b) / popcount(a OR b)     *)
(* times 100, and 0 when both bitmaps are empty; for filters that differ   *)
(* in size, hashcount or accuracy it is the error value.                   *)
C21_SimilarityEstimate ==
    [][last'.op = "bloom_estimate_intersection" =>
         LET r == last'.ret IN
         IF Compatible(bf, bf2.f)
         THEN /\ r # EstimateError
              /\ r.den # 0
              /\ IF UnionBits(bf, bf2.f) = 0
                 THEN r.num = 0
                 ELSE r.num * UnionBits(bf, bf2.f)
                          = CommonBits(bf, bf2.f) * 100 * r.den
         ELSE r = EstimateError
      ]_vars

\* the allocator after one bloom_destroy of each of the three filters of a
\* merge; the bitmaps of the two operands are live buffers
AfterDestroys(d, hp) ==
    LET r == destroy(d, hp) IN [r.heap EXCEPT !.live = @ - 2]

(* C30: set operations do not leak: when the result struct given to        *)
(* bloom_merge or bloom_intersect already owns a buffer, then after the    *)
(* call one bloom_destroy of each filter leaves no buffer allocated.       *)
C30_SetOpsDoNotLeak ==
    [][(last'.op \in SetOps /\ dst.ptr = "live")
         => (AfterDestroys(dst', heap').live = 0
                /\ ~AfterDestroys(dst', heap').bad)
      ]_vars

\* the error codes of the four variants that stand for a bad parameter
InvalidParameter == {"TDCBF_INVALIDEXPECTED", "TDCBF_INVALIDACCURACY"}

(* C22: construction rejects bad sizing inputs: an init call of any        *)
(* variant with expected = 0 or with an accuracy that is not strictly      *)
(* between 0 and 1 returns an invalid-parameter error, allocates nothing   *)
(* and performs no division by zero.                                       *)
C22_InitRejectsBadSizing ==
    [][(/\ last'.op = "init"
        /\ \/ last'.element[1] = 0
           \/ ~InUnitInterval(last'.element[2]))
         => /\ last'.ret \in InvalidParameter
            /\ heap' = heap
            /\ ~last'.divzero
      ]_vars

(* C23: after a successful init of any variant, for every accepted pair of *)
(* expected and accuracy, hashcount >= 1 and size >= 1.                    *)
C23_InitSizesPositive ==
    [][(last'.op = "init" /\ last'.ret = Success(dst.kind))
         => (dst'.f.hashcount >= 1 /\ dst'.f.size >= 1)
      ]_vars

(* C26: destroy is idempotent for all four variants: the first destroy on  *)
(* an initialised filter frees its buffer and sets the buffer pointer to   *)
(* NULL; a further destroy on the same filter frees nothing and changes    *)
(* nothing; so the buffer is freed exactly once and no free() is given a   *)
(* pointer that is not a live buffer.                                      *)
C26_DestroyIdempotent ==
    [][last'.op = "destroy" =>
         /\ dst'.ptr = "NULL"
         /\ ~heap'.bad
         /\ dst.ptr = "live" =>
                /\ heap'.live = heap.live - 1
                /\ heap'.frees = heap.frees + 1
                /\ dst'.f = dst.f
         /\ dst.ptr = "NULL" => (heap' = heap /\ dst' = dst)
         /\ heap'.frees <= 1
      ]_vars

\* a filter of some variant was initialised with success, destroyed, and
\* destroyed a second time
C26_Witness ==
    /\ heap # Idle /\ last.op = "destroy"
    /\ last.element = "NULL"
    /\ heap = [live |-> 0, frees |-> 1, bad |-> FALSE]
    /\ dst.ptr = "NULL"
    /\ dst.f.size >= 1

(* C24: clear empties the filter: after bloom_clear, cbloom_clear,         *)
(* tdbloom_clear or tdcbloom_clear every slot of the buffer is zero, the   *)
(* saturation count is 0 and lookup returns false for every element; the  *)
(* time-decaying variants set start_time to the current clock value; and   *)
(* size and hashcount are unchanged.                                       *)
C24_ClearEmpties ==
    [][/\ bloom_clear =>
            /\ \A i \in 0 .. bf'.bitmap_size - 1 : bf'.bitmap[i] = 0
            /\ bloom_saturation_count(bf') = 0
            /\ \A e \in Elements : ~bloom_lookup(bf', bf_oob', e)
            /\ bf'.size = bf.size /\ bf'.hashcount = bf.hashcount
       /\ cbloom_clear =>
            /\ \A i \in 0 .. cbf'.size - 1 : get_counter(cbf', i) = 0
            /\ cbloom_saturation_count(cbf') = 0
            /\ \A e \in Elements : ~cbloom_lookup(cbf', e)
            /\ cbf'.size = cbf.size /\ cbf'.hashcount = cbf.hashcount
       /\ tdbloom_clear =>
            /\ \A i \in 0 .. tdbf'.size - 1 : tdbf'.filter[i] = 0
            /\ \A e \in Elements : ~tdbloom_lookup(tdbf', now', e)
            /\ tdbf'.start_time = now
            /\ tdbf'.size = tdbf.size /\ tdbf'.hashcount = tdbf.hashcount
       /\ tdcbloom_clear =>
            /\ \A i \in 0 .. tdcbf'.size - 1 : tdcbf'.entrymap[i] = EmptyEntry
            /\ \A e \in Elements : ~tdcbloom_lookup(tdcbf', now', e)
            /\ tdcbf'.start_time = now
            /\ tdcbf'.size = tdcbf.size /\ tdcbf'.hashcount = tdcbf.hashcount
      ]_vars

\* the modular age of a stored value at the sweep's timestamp ts
SweepAgeOf(f, ts, value) == (ts - value + f.max_time) % f.max_time

(* C25: tdbloom_clear_expired reaps exactly the expired slots: it sets to  *)
(* 0 every slot whose stored value is nonzero and whose modular age        *)
(* (current timestamp - stored value + max_time) mod max_time exceeds      *)
(* timeout, leaves every other slot unchanged, and returns the number of   *)
(* slots it set to 0.                                                      *)
C25_SweepReapsExpired ==
    [][last'.op = "tdbloom_clear_expired" =>
         LET ts      == SweepTimestamp(tdbf, now)
             expired == {i \in 0 .. tdbf.size - 1 :
                            /\ tdbf.filter[i] # 0
                            /\ SweepAgeOf(tdbf, ts, tdbf.filter[i]) > tdbf.timeout}
         IN  /\ \A i \in 0 .. tdbf.size - 1 :
                    tdbf'.filter[i] = IF i \in expired THEN 0 ELSE tdbf.filter[i]
             /\ last'.ret = Cardinality(expired)
      ]_vars

(* C27: the bytes a save writes depend only on the metadata fields and the *)
(* buffer contents of the filter: a save that meets no I/O failure leaves   *)
(* the same file wherever the buffer of the filter lies in memory, so two   *)
(* filters with equal metadata and equal buffers at different addresses     *)
(* produce identical files (bloom_save, cbloom_save, tdbloom_save).         *)
C27_SaveDeterministic ==
    [][/\ (last'.op = "bloom_save" /\ last'.element = "none") =>
            \A a \in Addresses : disk' = bloom_save(bf, a, disk, "none").disk
       /\ (last'.op = "cbloom_save" /\ last'.element = "none") =>
            \A a \in Addresses : disk' = cbloom_save(cbf, a, disk, "none").disk
       /\ (last'.op = "tdbloom_save" /\ last'.element = "none") =>
            \A a \in Addresses : disk' = tdbloom_save(tdbf, a, disk, "none").disk
      ]_vars

(* C28: the timestamp 0 is reserved for the empty slot: at every clock      *)
(* value tdbloom_add stores a value in 1 .. max_time in each slot of the    *)
(* element, and tdcbloom_add stores a nonzero timestamp in each entry of    *)
(* the element, so the nonzero test of the sweeps skips no written slot.    *)
C28_AddNeverStoresZero ==
    [][\A e \in Elements :
          /\ tdbloom_add(e) =>
                \A i \in TDSlots(tdbf, e) :
                    tdbf'.filter[i] >= 1 /\ tdbf'.filter[i] <= tdbf.max_time
          /\ tdcbloom_add(e) =>
                \A i \in TDCSlots(tdcbf, e) : tdcbf'.entrymap[i].timestamp # 0
      ]_vars

\* the bit positions of the elements added since the filter was last empty
AddedPositions(f, added) ==
    {Position(f, e, i) : e \in added, i \in 0 .. f.hashcount - 1}

(* C29: every slot access stays inside the allocated buffer: for a filter   *)
(* built by bloom_init each byte index position / 8 that an add uses is     *)
(* below bitmap_size, so every bit set by the adds is counted by            *)
(* bloom_saturation_count.                                                  *)
C29_AccessInsideBuffer ==
    [][\A e \in Elements :
          (/\ last'.op \in {"bloom_add", "bloom_lookup_or_add",
                            "bloom_add_if_not_present"}
           /\ last'.element = e) =>
             /\ \A i \in 0 .. bf.hashcount - 1 :
                    byte_position(Position(bf, e, i)) < bf.bitmap_size
             /\ bloom_saturation_count(bf') =
                    Cardinality(AddedPositions(bf', bf_added'))
      ]_vars

=============================================================================
